---- MODULE Spec2Model ----
(***************************************************************************)
(* Verification model of the complaint-analysis RAG pipeline:              *)
(* text cleaning, chunking, record filtering, index building and loading,  *)
(* retrieval, prompt assembly, answer generation and answer display.       *)
(* Every component object is one variable holding a                        *)
(* record of its fields; a component that a specification does not         *)
(* exercise stays at its idle value.                                       *)
(***************************************************************************)
EXTENDS Integers, Sequences, FiniteSets, TLC

VARIABLES
    preprocessor,   \* MinimalTextPreprocessor.clean_text call: input cell, results
    chunker,        \* TextChunker: chunk_size, chunk_overlap, text, emitted chunks
    processor,      \* ComplaintChunkProcessor: stats, pending batches, cleaned rows
    retriever,      \* QuestionRetriever + vector store: index, k, results
    prompt_engineer,\* PromptEngineer: max_context_length, chunks, context parts
    mapping,        \* one ComplaintChunkProcessor.map_product call: labels, result
    display,        \* answer display step of the console pipeline / UI app
    answer_generator, \* AnswerGenerator: one call to the remote model, its outcome
    builder,        \* VectorStoreBuilder.build_chroma_store: batches, store, disk
    loader,         \* ChromaLoader: location, model name, loaded collection
    embedder,       \* EmbeddingGenerator and the retriever's query embedding
    pipeline,       \* console pipeline (rag_pipeline.py), one query from step 5 to 7
    runner          \* embedding run (embedding_runner.py): records, chunks, metadatas

vars == <<preprocessor, chunker, processor, retriever, prompt_engineer, mapping, display,
          answer_generator, builder, loader, embedder, pipeline, runner>>

Idle == [state |-> "idle"]

-----------------------------------------------------------------------------
(* Python string primitives.  A Python str is a TLA+ string; a pandas cell   *)
(* is <<>> for NaN/None and <<s>> for the string s.                         *)

NaN == <<>>

Str(s) == <<s>>

isnull(cell) == cell = NaN

CharAt(s, i) == SubSeq(s, i, i)

\* str.isspace() / regex \s for the characters of the model's alphabets
IsSpace(c) == c \in {" ", "\n", "\t"}

UpperChars == "ABCDEFGHIJKLMNOPQRSTUVWXYZ"

LowerChars == "abcdefghijklmnopqrstuvwxyz"

UpperSet == {CharAt(UpperChars, i) : i \in 1..Len(UpperChars)}

LowerOf ==
    [c \in UpperSet |->
        CharAt(LowerChars, CHOOSE i \in 1..Len(UpperChars) : CharAt(UpperChars, i) = c)]

LowerChar(c) == IF c \in UpperSet THEN LowerOf[c] ELSE c

RECURSIVE lower(_)
lower(s) ==
    IF s = "" THEN ""
    ELSE LowerChar(CharAt(s, 1)) \o lower(SubSeq(s, 2, Len(s)))

RECURSIVE lstrip(_)
lstrip(s) ==
    IF s # "" /\ IsSpace(CharAt(s, 1)) THEN lstrip(SubSeq(s, 2, Len(s))) ELSE s

RECURSIVE rstrip(_)
rstrip(s) ==
    IF s # "" /\ IsSpace(CharAt(s, Len(s))) THEN rstrip(SubSeq(s, 1, Len(s) - 1)) ELSE s

strip(s) == rstrip(lstrip(s))

\* t in s
Contains(s, t) ==
    \E i \in 0..(Len(s) - Len(t)) : SubSeq(s, i + 1, i + Len(t)) = t

\* All strings over the characters of `alphabet` (a set of one-character
\* strings) of length at most n.
RECURSIVE StringsUpTo(_, _)
StringsUpTo(alphabet, n) ==
    IF n = 0 THEN {""}
    ELSE LET shorter == StringsUpTo(alphabet, n - 1)
         IN  shorter \cup {s \o c : s \in shorter, c \in alphabet}

\* All sequences of elements of S of length at most n.
RECURSIVE SeqsUpTo(_, _)
SeqsUpTo(S, n) ==
    IF n = 0 THEN {<<>>}
    ELSE LET shorter == SeqsUpTo(S, n - 1)
         IN  shorter \cup {Append(q, x) : q \in shorter, x \in S}

-----------------------------------------------------------------------------
(* MinimalTextPreprocessor (src/src/chunking/text_cleaner.py)               *)

MaxRawLen == 5

RawAlphabet == {"a", "B", " ", "\n"}

\* re.sub(r"\s\s", " ", text): a pattern that only folds pairs of whitespace
RECURSIVE ReSubWsPairs(_)
ReSubWsPairs(s) ==
    IF s = "" THEN ""
    ELSE IF Len(s) >= 2 /\ IsSpace(CharAt(s, 1)) /\ IsSpace(CharAt(s, 2))
         THEN " " \o ReSubWsPairs(SubSeq(s, 3, Len(s)))
         ELSE CharAt(s, 1) \o ReSubWsPairs(SubSeq(s, 2, Len(s)))

\* re.sub(r"\s+", " ", text): every maximal run of whitespace becomes one space
RECURSIVE ReSubWs(_)
ReSubWs(s) ==
    IF s = "" THEN ""
    ELSE IF IsSpace(CharAt(s, 1))
         THEN " " \o ReSubWs(lstrip(s))
         ELSE CharAt(s, 1) \o ReSubWs(SubSeq(s, 2, Len(s)))

clean_text(text) ==
    IF isnull(text) THEN ""
    ELSE lower(strip(ReSubWs(text[1])))

PreprocessorInit ==
    /\ \E x \in StringsUpTo(RawAlphabet, MaxRawLen) :
           preprocessor = [state |-> "new", text |-> x, cleaned |-> "", recleaned |-> ""]
    /\ chunker = Idle /\ processor = Idle /\ retriever = Idle
    /\ prompt_engineer = Idle /\ mapping = Idle /\ display = Idle
    /\ answer_generator = Idle /\ builder = Idle /\ loader = Idle
    /\ embedder = Idle /\ pipeline = Idle /\ runner = Idle

\* first application of clean_text to a raw narrative
CleanText ==
    /\ preprocessor.state = "new"
    /\ preprocessor' = [preprocessor EXCEPT
            !.state = "cleaned",
            !.cleaned = clean_text(Str(preprocessor.text))]
    /\ UNCHANGED <<chunker, processor, retriever, prompt_engineer, mapping, display,
                   answer_generator, builder, loader,
                   embedder, pipeline, runner>>

\* clean_text applied to its own output
CleanTextAgain ==
    /\ preprocessor.state = "cleaned"
    /\ preprocessor' = [preprocessor EXCEPT
            !.state = "recleaned",
            !.recleaned = clean_text(Str(preprocessor.cleaned))]
    /\ UNCHANGED <<chunker, processor, retriever, prompt_engineer, mapping, display,
                   answer_generator, builder, loader,
                   embedder, pipeline, runner>>

PreprocessorNext == CleanText \/ CleanTextAgain

SpecClean == PreprocessorInit /\ [][PreprocessorNext]_vars

\* C8: clean_text is idempotent: cleaning an already cleaned text, the empty
\* and the whitespace-only ones included, leaves it unchanged.
C8_CleanTextIdempotent ==
    preprocessor.state = "recleaned" => preprocessor.recleaned = preprocessor.cleaned

\* a text with an inner run of three whitespace characters and an upper-case
\* letter has been cleaned twice
C8_Witness ==
    /\ preprocessor.state = "recleaned"
    /\ preprocessor.text = "B \n a"
    /\ preprocessor.cleaned = "b a"

-----------------------------------------------------------------------------
(* ComplaintChunkProcessor.map_product (src/src/data_loader.py)             *)

\* str(value) of a cell: a missing value prints as "nan"
str(cell) == IF isnull(cell) THEN "nan" ELSE cell[1]

\* any(term in label for term in terms)
AnyIn(terms, label) == \E term \in terms : Contains(label, term)

allowed_products ==
    <<"Credit card", "Personal loan", "Buy Now, Pay Later", "Savings account",
      "Money transfer, virtual currency">>

AllowedSet == {allowed_products[i] : i \in 1..Len(allowed_products)}

\* the if/elif chain with the Personal-loan test moved in front of the
\* Credit-card test
map_product_LoanFirst(product_cell, sub_product_cell) ==
    LET product == lower(str(product_cell))
        sub_product == lower(str(sub_product_cell))
    IN  IF AnyIn({"payday", "personal loan"}, product)
           \/ AnyIn({"loan", "installment"}, sub_product)
        THEN "Personal loan"
        ELSE IF Contains(product, "credit card") \/ Contains(sub_product, "credit card")
        THEN "Credit card"
        ELSE IF Contains(product, "buy now") \/ Contains(sub_product, "bnpl")
        THEN "Buy Now, Pay Later"
        ELSE IF AnyIn({"savings", "checking"}, product)
        THEN "Savings account"
        ELSE IF AnyIn({"money transfer", "virtual currency"}, product)
        THEN "Money transfer, virtual currency"
        ELSE "Unmapped"

map_product(product_cell, sub_product_cell) ==
    LET product == lower(str(product_cell))
        sub_product == lower(str(sub_product_cell))
    IN  IF Contains(product, "credit card") \/ Contains(sub_product, "credit card")
        THEN "Credit card"
        ELSE IF AnyIn({"payday", "personal loan"}, product)
                \/ AnyIn({"loan", "installment"}, sub_product)
        THEN "Personal loan"
        ELSE IF Contains(product, "buy now") \/ Contains(sub_product, "bnpl")
        THEN "Buy Now, Pay Later"
        ELSE IF AnyIn({"savings", "checking"}, product)
        THEN "Savings account"
        ELSE IF AnyIn({"money transfer", "virtual currency"}, product)
        THEN "Money transfer, virtual currency"
        ELSE "Unmapped"

\* category labels of the raw file (CFPB product names, in mixed case)
ProductLabels ==
    {"Credit Card Services", "Credit card or prepaid card", "PERSONAL LOAN",
     "Payday loan, title loan, or personal loan", "Buy Now Pay Later",
     "Checking or savings account", "Money transfer, virtual currency, or money service",
     "Virtual Currency", "Student loan", "Mortgage", "Unrelated Widget", ""}

SubProductLabels ==
    {"", "Store credit card", "Installment loan", "Loan", "BNPL plan",
     "Checking account", "Domestic (US) money transfer", "Conventional home mortgage"}

Cells(labels) == {NaN} \cup {Str(l) : l \in labels}

MappingInit ==
    /\ \E product \in Cells(ProductLabels), sub_product \in Cells(SubProductLabels) :
           mapping = [state |-> "new", product |-> product, sub_product |-> sub_product,
                      result |-> ""]
    /\ preprocessor = Idle /\ chunker = Idle /\ processor = Idle
    /\ retriever = Idle /\ prompt_engineer = Idle /\ display = Idle
    /\ answer_generator = Idle /\ builder = Idle /\ loader = Idle
    /\ embedder = Idle /\ pipeline = Idle /\ runner = Idle

MapProduct ==
    /\ mapping.state = "new"
    /\ mapping' = [mapping EXCEPT
            !.state = "mapped",
            !.result = map_product(mapping.product, mapping.sub_product)]
    /\ UNCHANGED <<preprocessor, chunker, processor, retriever, prompt_engineer, display,
                   answer_generator, builder, loader,
                   embedder, pipeline, runner>>

MappingNext == MapProduct

SpecMap == MappingInit /\ [][MappingNext]_vars

\* The ordered keyword rules of the category mapping: target category, keywords
\* looked for in the category label, keywords looked for in the sub-category label.
C9_Rules ==
    <<[target |-> "Credit card", in_product |-> {"credit card"},
       in_sub |-> {"credit card"}],
      [target |-> "Personal loan", in_product |-> {"payday", "personal loan"},
       in_sub |-> {"loan", "installment"}],
      [target |-> "Buy Now, Pay Later", in_product |-> {"buy now"}, in_sub |-> {"bnpl"}],
      [target |-> "Savings account", in_product |-> {"savings", "checking"},
       in_sub |-> {}],
      [target |-> "Money transfer, virtual currency",
       in_product |-> {"money transfer", "virtual currency"}, in_sub |-> {}]>>

C9_Matches(rule, product_cell, sub_product_cell) ==
    \/ \E kw \in rule.in_product : Contains(lower(str(product_cell)), kw)
    \/ \E kw \in rule.in_sub : Contains(lower(str(sub_product_cell)), kw)

C9_FirstMatch(product_cell, sub_product_cell) ==
    LET hits == {i \in 1..Len(C9_Rules) :
                    C9_Matches(C9_Rules[i], product_cell, sub_product_cell)}
    IN  IF hits = {} THEN "Unmapped"
        ELSE C9_Rules[CHOOSE i \in hits : \A j \in hits : i <= j].target

\* C9: map_product returns the target of the first rule, in the order Credit
\* card, Personal loan, Buy Now Pay Later, Savings account, Money transfer,
\* whose keyword occurs case-insensitively in the labels, and "Unmapped" when
\* no rule matches; ("Credit Card Services", "") maps to "Credit card" and
\* ("Unrelated Widget", "") to "Unmapped".
C9_FirstMatchWins ==
    mapping.state = "mapped" =>
        /\ mapping.result = C9_FirstMatch(mapping.product, mapping.sub_product)
        /\ (mapping.product = Str("Credit Card Services") /\ mapping.sub_product = Str("")
                => mapping.result = "Credit card")
        /\ (mapping.product = Str("Unrelated Widget") /\ mapping.sub_product = Str("")
                => mapping.result = "Unmapped")

\* a label pair on which two rules match (Credit card and Personal loan) has
\* been mapped by the earlier one
C9_Witness ==
    /\ mapping.state = "mapped"
    /\ mapping.product = Str("Credit card or prepaid card")
    /\ mapping.sub_product = Str("Installment loan")
    /\ mapping.result = "Credit card"

-----------------------------------------------------------------------------
(* ComplaintChunkProcessor.process_chunks (src/src/data_loader.py)          *)

MaxRows == 2

MaxChunkSize == 2

MaxCalls == 2

Digits == "0123456789"

\* the character class [A-Za-z0-9.,!?'" ] kept by clean_text
KeptChar(c) ==
    \/ Contains(UpperChars, c) \/ Contains(LowerChars, c) \/ Contains(Digits, c)
    \/ c \in {".", ",", "!", "?", "'", "\"", " "}

\* re.sub(r'[^A-Za-z0-9.,!?\'" ]+', "", text)
RECURSIVE ReSubSpecial(_)
ReSubSpecial(s) ==
    IF s = "" THEN ""
    ELSE (IF KeptChar(CharAt(s, 1)) THEN CharAt(s, 1) ELSE "")
            \o ReSubSpecial(SubSeq(s, 2, Len(s)))

processor_clean_text(text) ==
    IF isnull(text) THEN ""
    ELSE lower(ReSubSpecial(strip(ReSubWs(text[1]))))

\* rows of the raw file: category, sub-category and narrative cells
RawRows ==
    {[Product |-> Str("Credit card"), SubProduct |-> NaN, Narrative |-> Str("Late  FEE!")],
     [Product |-> Str("Unrelated Widget"), SubProduct |-> Str(""), Narrative |-> Str("broken")],
     [Product |-> Str("Payday loan"), SubProduct |-> Str("Installment loan"), Narrative |-> NaN],
     [Product |-> Str("Checking or savings account"), SubProduct |-> Str("Checking account"),
      Narrative |-> Str(" \n")],
     [Product |-> Str("Mortgage"), SubProduct |-> Str("Loan"), Narrative |-> Str("a # b")],
     [Product |-> Str("Debt collection"), SubProduct |-> NaN, Narrative |-> NaN],
     [Product |-> Str("Virtual Currency"), SubProduct |-> NaN, Narrative |-> Str("#@")]}

\* the headers a raw file may have: complete, or lacking one column
ColumnSets ==
    {{"Product", "Sub-product", "Consumer complaint narrative"},
     {"Sub-product", "Consumer complaint narrative"},
     {"Product", "Consumer complaint narrative"},
     {"Product", "Sub-product"}}

\* pd.read_csv(filepath, chunksize=chunk_size): the next batch of the file
NextChunk(rows, chunk_size) ==
    SubSeq(rows, 1, IF Len(rows) < chunk_size THEN Len(rows) ELSE chunk_size)

RestRows(rows, chunk_size) ==
    SubSeq(rows, (IF Len(rows) < chunk_size THEN Len(rows) ELSE chunk_size) + 1, Len(rows))

\* row.get(column, "")
RowGet(columns, row, column, field) ==
    IF column \in columns THEN row[field] ELSE Str("")

\* chunk["MappedProduct"] = chunk.apply(map_product(Product, Sub-product))
WithMappedProduct(columns, chunk) ==
    [i \in 1..Len(chunk) |->
        [Product |-> chunk[i].Product, SubProduct |-> chunk[i].SubProduct,
         Narrative |-> chunk[i].Narrative,
         MappedProduct |-> map_product(RowGet(columns, chunk[i], "Product", "Product"),
                                       RowGet(columns, chunk[i], "Sub-product", "SubProduct"))]]

InAllowedProducts(row) == row.MappedProduct \in AllowedSet

\* the product filter left out: every mapped row passes
KeepAllProducts(chunk) == chunk

\* chunk[chunk["MappedProduct"].isin(self.allowed_products)]
FilterProducts(chunk) == SelectSeq(chunk, InAllowedProducts)

HasNarrative(row) == ~isnull(row.Narrative)

NarrativeNotBlank(row) == strip(row.Narrative[1]) # ""

\* chunk.dropna(subset=[narrative]) then chunk[narrative.str.strip() != ""]
FilterNarratives(chunk) == SelectSeq(SelectSeq(chunk, HasNarrative), NarrativeNotBlank)

\* chunk[narrative] = chunk[narrative].apply(self.clean_text)
CleanNarratives(chunk) ==
    [i \in 1..Len(chunk) |->
        [chunk[i] EXCEPT !.Narrative = Str(processor_clean_text(chunk[i].Narrative))]]

\* value_counts() of MappedProduct added into stats["products_found"]
Count(chunk, product) == Cardinality({i \in 1..Len(chunk) : chunk[i].MappedProduct = product})

\* the per-category counts started again with every batch
AddProductCounts_Restart(found, chunk) ==
    LET seen == {chunk[i].MappedProduct : i \in 1..Len(chunk)}
    IN  [product \in seen |-> Count(chunk, product)]

AddProductCounts(found, chunk) ==
    LET seen == {chunk[i].MappedProduct : i \in 1..Len(chunk)}
    IN  [product \in DOMAIN found \cup seen |->
            (IF product \in DOMAIN found THEN found[product] ELSE 0) + Count(chunk, product)]

\* the narrative column of a batch whose cells are all missing is read as a
\* float column; the .str accessor refuses it (AttributeError)
AllNarrativesMissing(chunk) == \A i \in 1..Len(chunk) : isnull(chunk[i].Narrative)

NewStats ==
    [chunks_processed |-> 0, rows_loaded |-> 0, rows_kept |-> 0, rows_dropped_total |-> 0,
     rows_dropped_no_narrative |-> 0, rows_dropped_wrong_product |-> 0,
     products_found |-> <<>>]

\* ComplaintChunkProcessor(filepath, output_path, chunk_size) on an existing file
ProcessorInit ==
    /\ \E file \in SeqsUpTo(RawRows, MaxRows), columns \in ColumnSets,
          chunk_size \in 1..MaxChunkSize :
           processor = [state |-> "constructed", file |-> file, columns |-> columns,
                        chunk_size |-> chunk_size, stats |-> NewStats,
                        unread |-> <<>>, filtered_data |-> <<>>, chunks_read |-> 0,
                        cleaned_df |-> <<>>, output |-> <<>>, calls |-> 0]
    /\ preprocessor = Idle /\ chunker = Idle /\ retriever = Idle
    /\ prompt_engineer = Idle /\ mapping = Idle /\ display = Idle
    /\ answer_generator = Idle /\ builder = Idle /\ loader = Idle
    /\ embedder = Idle /\ pipeline = Idle /\ runner = Idle

\* process_chunks() is entered: the file is opened for batch reading
StartProcessChunks ==
    /\ processor.state \in {"constructed", "done", "failed"}
    /\ processor.calls < MaxCalls
    /\ processor' = [processor EXCEPT
            !.state = "reading", !.calls = @ + 1, !.unread = processor.file,
            !.filtered_data = <<>>, !.chunks_read = 0]
    /\ UNCHANGED <<preprocessor, chunker, retriever, prompt_engineer, mapping, display,
                   answer_generator, builder, loader,
                   embedder, pipeline, runner>>

\* one iteration of the batch loop
ProcessChunk ==
    /\ processor.state = "reading"
    /\ processor.unread # <<>>
    /\ LET raw == NextChunk(processor.unread, processor.chunk_size)
           mapped == WithMappedProduct(processor.columns, raw)
           by_product == FilterProducts(mapped)
           loaded == [processor.stats EXCEPT
                        !.chunks_processed = @ + 1,
                        !.rows_loaded = @ + Len(raw),
                        !.rows_dropped_wrong_product = @ + (Len(mapped) - Len(by_product))]
           by_narrative == FilterNarratives(by_product)
           cleaned == CleanNarratives(by_narrative)
       IN  IF \/ "Consumer complaint narrative" \notin processor.columns
              \/ AllNarrativesMissing(raw)
           THEN \* KeyError / AttributeError, re-raised as RuntimeError
                processor' = [processor EXCEPT
                    !.state = "failed", !.stats = loaded,
                    !.unread = RestRows(processor.unread, processor.chunk_size)]
           ELSE processor' = [processor EXCEPT
                    !.stats = [loaded EXCEPT
                        !.rows_dropped_no_narrative = @ + (Len(by_product) - Len(by_narrative)),
                        !.products_found = AddProductCounts(@, cleaned),
                        !.rows_kept = @ + Len(cleaned)],
                    !.unread = RestRows(processor.unread, processor.chunk_size),
                    !.chunks_read = @ + 1,
                    !.filtered_data = @ \o cleaned]
    /\ UNCHANGED <<preprocessor, chunker, retriever, prompt_engineer, mapping, display,
                   answer_generator, builder, loader,
                   embedder, pipeline, runner>>

\* after the loop: concat, to_csv, rows_dropped_total (or the to_csv call fails)
SaveCleaned ==
    /\ processor.state = "reading"
    /\ processor.unread = <<>>
    /\ processor.chunks_read > 0
    /\ \E saved \in BOOLEAN :
        processor' =
            IF saved
            THEN [processor EXCEPT
                    !.state = "done",
                    !.cleaned_df = processor.filtered_data,
                    !.output = processor.filtered_data,
                    !.stats = [@ EXCEPT !.rows_dropped_total =
                                    processor.stats.rows_loaded - processor.stats.rows_kept]]
            ELSE [processor EXCEPT
                    !.state = "failed", !.cleaned_df = processor.filtered_data]
    /\ UNCHANGED <<preprocessor, chunker, retriever, prompt_engineer, mapping, display,
                   answer_generator, builder, loader,
                   embedder, pipeline, runner>>

\* after the loop over a file without rows: "No matching complaints found."
NoChunks ==
    /\ processor.state = "reading"
    /\ processor.unread = <<>>
    /\ processor.chunks_read = 0
    /\ processor' = [processor EXCEPT !.state = "done"]
    /\ UNCHANGED <<preprocessor, chunker, retriever, prompt_engineer, mapping, display,
                   answer_generator, builder, loader,
                   embedder, pipeline, runner>>

ProcessorNext == StartProcessChunks \/ ProcessChunk \/ SaveCleaned \/ NoChunks

SpecLoader == ProcessorInit /\ [][ProcessorNext]_vars

\* the rows retained so far, in memory and in the cleaned output file
RetainedRows ==
    LET all == processor.filtered_data \o processor.cleaned_df \o processor.output
    IN  {all[i] : i \in 1..Len(all)}

\* C10: every row retained by process_chunks, at any point of any sequence of
\* batches, carries one of the five target categories; no row that maps to
\* "Unmapped" is retained in the cleaned output.
C10_NoUnmappedRetained ==
    \A row \in RetainedRows :
        /\ row.MappedProduct \in
              {"Credit card", "Personal loan", "Buy Now, Pay Later", "Savings account",
               "Money transfer, virtual currency"}
        /\ map_product(RowGet(processor.columns, row, "Product", "Product"),
                       RowGet(processor.columns, row, "Sub-product", "SubProduct"))
              # "Unmapped"

\* a file holding a mappable and an unmappable row has been processed and
\* saved: the unmappable row was counted as dropped and one row was written
C10_Witness ==
    /\ processor.state = "done"
    /\ \E i \in 1..Len(processor.file) :
          map_product(processor.file[i].Product, processor.file[i].SubProduct) = "Unmapped"
    /\ processor.stats.rows_dropped_wrong_product > 0
    /\ Len(processor.output) > 0

\* the headers of the file lack a required column
C17_RequiredColumnMissing ==
    \/ "Product" \notin processor.columns
    \/ "Consumer complaint narrative" \notin processor.columns

\* C17 as stated: once a batch of a file that lacks the category column or
\* the narrative column has been read, processing has failed, and no row of
\* the file was kept, counted as dropped for its category, or written out.
C17_MissingColumnFails ==
    (C17_RequiredColumnMissing /\ processor.stats.rows_loaded > 0) =>
        /\ processor.state = "failed"
        /\ processor.filtered_data = <<>> /\ processor.output = <<>>
        /\ processor.stats.rows_kept = 0
        /\ processor.stats.rows_dropped_wrong_product = 0

\* the batch the next loop iteration reads
C18_Batch == NextChunk(processor.unread, processor.chunk_size)

\* category of a raw row, by the ordered keyword rules
C18_Category(row) ==
    C9_FirstMatch(RowGet(processor.columns, row, "Product", "Product"),
                  RowGet(processor.columns, row, "Sub-product", "SubProduct"))

C18_Kept(row) ==
    /\ C18_Category(row) # "Unmapped"
    /\ ~isnull(row.Narrative)
    /\ strip(row.Narrative[1]) # ""

C18_Wrong(row) == C18_Category(row) = "Unmapped"

C18_NoNarrative(row) == C18_Category(row) # "Unmapped" /\ ~C18_Kept(row)

C18_NumberWrong == Cardinality({i \in 1..Len(C18_Batch) : C18_Wrong(C18_Batch[i])})

C18_NumberNoNarrative ==
    Cardinality({i \in 1..Len(C18_Batch) : C18_NoNarrative(C18_Batch[i])})

C18_NumberKept == Cardinality({i \in 1..Len(C18_Batch) : C18_Kept(C18_Batch[i])})

C18_Found(stats, product) ==
    IF product \in DOMAIN stats.products_found THEN stats.products_found[product] ELSE 0

C18_BatchFails ==
    \/ "Consumer complaint narrative" \notin processor.columns
    \/ \A i \in 1..Len(C18_Batch) : isnull(C18_Batch[i].Narrative)

\* C18: the counters of one instance only accumulate: a loop iteration adds
\* the batch's own contribution to each counter (rows read, rows of another
\* category, rows without narrative, rows kept, rows kept per category), and
\* every other step, a further process_chunks call included, leaves each
\* counter as it is.
C18_CountersAccumulate ==
    [][LET old == processor.stats
           new == processor'.stats
       IN  IF processor.state = "reading" /\ processor.unread # <<>>
           THEN /\ new.chunks_processed = old.chunks_processed + 1
                /\ new.rows_loaded = old.rows_loaded + Len(C18_Batch)
                /\ new.rows_dropped_wrong_product
                        = old.rows_dropped_wrong_product + C18_NumberWrong
                /\ new.rows_dropped_no_narrative
                        = old.rows_dropped_no_narrative
                            + (IF C18_BatchFails THEN 0 ELSE C18_NumberNoNarrative)
                /\ new.rows_kept
                        = old.rows_kept + (IF C18_BatchFails THEN 0 ELSE C18_NumberKept)
                /\ \A product \in AllowedSet \cup {"Unmapped"} :
                        C18_Found(new, product)
                            = C18_Found(old, product)
                                + (IF C18_BatchFails THEN 0
                                   ELSE Cardinality({i \in 1..Len(C18_Batch) :
                                            /\ C18_Kept(C18_Batch[i])
                                            /\ C18_Category(C18_Batch[i]) = product}))
           ELSE /\ new.chunks_processed = old.chunks_processed
                /\ new.rows_loaded = old.rows_loaded
                /\ new.rows_dropped_wrong_product = old.rows_dropped_wrong_product
                /\ new.rows_dropped_no_narrative = old.rows_dropped_no_narrative
                /\ new.rows_kept = old.rows_kept
                /\ new.products_found = old.products_found
      ]_vars

\* the second process_chunks call of an instance has read the file again and
\* the counters hold both passes
C18_Witness ==
    /\ processor.calls = 2 /\ processor.state = "done"
    /\ Len(processor.file) = 2 /\ processor.chunk_size = 1
    /\ processor.stats.chunks_processed = 4
    /\ processor.stats.rows_loaded = 4
    /\ processor.stats.rows_kept = 2
    /\ processor.stats.rows_dropped_wrong_product = 2
    /\ C18_Found(processor.stats, "Credit card") = 2

\* C19 as stated: every retained record has a cleaned narrative that is
\* neither missing nor empty nor blank.
C19_RetainedNarrativeNotBlank ==
    \A row \in RetainedRows :
        ~isnull(row.Narrative) /\ strip(row.Narrative[1]) # ""

-----------------------------------------------------------------------------
(* PromptEngineer (src/src/rag/prompt_template.py)                          *)

MaxChunks == 3

MaxBudget == 5

\* page contents a retrieved chunk may carry (the empty one included)
Documents == {"", " ", "a", "ab", " b", "abc", "a b "}

Questions == {" ", "why?"}

Delimiter == "\n---\n"

\* separator.join(parts)
RECURSIVE Join(_, _)
Join(separator, parts) ==
    IF parts = <<>> THEN ""
    ELSE IF Len(parts) = 1 THEN parts[1]
    ELSE parts[1] \o separator \o Join(separator, Tail(parts))

\* the loop with the running total never advanced: each document is tested
\* against the whole budget on its own
RECURSIVE AssembleContext_NoRunningTotal(_, _, _, _)
AssembleContext_NoRunningTotal(items, context_parts, current_length, max_context_length) ==
    IF items = <<>> THEN context_parts
    ELSE LET chunk_text == Head(items).document
         IN  IF chunk_text = ""
             THEN AssembleContext_NoRunningTotal(Tail(items), context_parts, current_length,
                                                 max_context_length)
             ELSE IF current_length + Len(chunk_text) <= max_context_length
             THEN AssembleContext_NoRunningTotal(Tail(items),
                        Append(context_parts, strip(chunk_text)), current_length,
                        max_context_length)
             ELSE context_parts

\* the loop with `continue` in place of `break`: a document that does not fit
\* is skipped and the loop goes on
RECURSIVE AssembleContext_SkipOversized(_, _, _, _)
AssembleContext_SkipOversized(items, context_parts, current_length, max_context_length) ==
    IF items = <<>> THEN context_parts
    ELSE LET chunk_text == Head(items).document
         IN  IF chunk_text = ""
             THEN AssembleContext_SkipOversized(Tail(items), context_parts, current_length,
                                                max_context_length)
             ELSE IF current_length + Len(chunk_text) <= max_context_length
             THEN AssembleContext_SkipOversized(Tail(items),
                        Append(context_parts, strip(chunk_text)),
                        current_length + Len(chunk_text), max_context_length)
             ELSE AssembleContext_SkipOversized(Tail(items), context_parts, current_length,
                                                max_context_length)

\* for item in retrieved_chunks: skip empty, admit while the total fits, else break
RECURSIVE AssembleContext(_, _, _, _)
AssembleContext(items, context_parts, current_length, max_context_length) ==
    IF items = <<>> THEN context_parts
    ELSE LET chunk_text == Head(items).document
         IN  IF chunk_text = ""
             THEN AssembleContext(Tail(items), context_parts, current_length,
                                  max_context_length)
             ELSE IF current_length + Len(chunk_text) <= max_context_length
             THEN AssembleContext(Tail(items), Append(context_parts, strip(chunk_text)),
                                  current_length + Len(chunk_text), max_context_length)
             ELSE context_parts

SentinelInstruction ==
    "The available complaint data does not provide enough information to answer this question."

\* the f-string template, after its final .strip()
PromptTemplate(combined_context, question) ==
    "You are an impartial financial assistant for CrediTrust Financial. Your task is to answer business questions using only the information provided in the retrieved customer complaint narratives.\n\n"
    \o "Instructions:\n"
    \o "- Base your answer strictly on the retrieved context below.\n"
    \o "- Do not add information, speculate, or make assumptions beyond the given context.\n"
    \o "- If the context does not contain enough information to confidently answer the question, clearly say:  \n"
    \o "  **\"" \o SentinelInstruction \o "\"**\n\n"
    \o "Retrieved Complaint Narratives:\n" \o combined_context \o "\n\n"
    \o "Business Question:\n" \o question \o "\n\n"
    \o "Answer:"

\* PromptEngineer(max_context_length) constructed; a question and a ranked
\* result list are about to be passed to build_prompt
PromptEngineerInit ==
    /\ \E max_context_length \in 1..MaxBudget, question \in Questions,
          docs \in SeqsUpTo(Documents, MaxChunks) :
           prompt_engineer =
               [state |-> "constructed", max_context_length |-> max_context_length,
                question |-> question,
                retrieved_chunks |-> [i \in 1..Len(docs) |-> [document |-> docs[i]]],
                context_parts |-> <<>>, combined_context |-> "", prompt |-> ""]
    /\ preprocessor = Idle /\ chunker = Idle /\ processor = Idle
    /\ retriever = Idle /\ mapping = Idle /\ display = Idle
    /\ answer_generator = Idle /\ builder = Idle /\ loader = Idle
    /\ embedder = Idle /\ pipeline = Idle /\ runner = Idle

BuildPrompt ==
    /\ prompt_engineer.state = "constructed"
    /\ IF strip(prompt_engineer.question) = "" \/ prompt_engineer.retrieved_chunks = <<>>
       THEN \* ValueError, re-raised as RuntimeError
            prompt_engineer' = [prompt_engineer EXCEPT !.state = "error"]
       ELSE LET context_parts == AssembleContext(prompt_engineer.retrieved_chunks, <<>>, 0,
                                                 prompt_engineer.max_context_length)
                combined_context == Join(Delimiter, context_parts)
            IN  prompt_engineer' = [prompt_engineer EXCEPT
                    !.state = "built",
                    !.context_parts = context_parts,
                    !.combined_context = combined_context,
                    !.prompt = PromptTemplate(combined_context, prompt_engineer.question)]
    /\ UNCHANGED <<preprocessor, chunker, processor, retriever, mapping, display,
                   answer_generator, builder, loader,
                   embedder, pipeline, runner>>

PromptEngineerNext == BuildPrompt

SpecPrompt == PromptEngineerInit /\ [][PromptEngineerNext]_vars

\* the non-empty documents of the ranked result list, in rank order
NonEmptyDocuments ==
    LET chunks == prompt_engineer.retrieved_chunks
        docs == [i \in 1..Len(chunks) |-> chunks[i].document]
    IN  SelectSeq(docs, LAMBDA d : d # "")

RECURSIVE TotalLen(_)
TotalLen(docs) == IF docs = <<>> THEN 0 ELSE Len(Head(docs)) + TotalLen(Tail(docs))

\* C1 as stated: the evidence block (the admitted documents joined by the
\* delimiter) is never longer than max_context_length.
C1_EvidenceWithinBudget ==
    prompt_engineer.state = "built" =>
        Len(prompt_engineer.combined_context) <= prompt_engineer.max_context_length

\* C1 amended: the admitted documents, counted as given and without the
\* delimiters, total at most max_context_length characters; the evidence
\* block exceeds the budget by at most one delimiter per admitted document
\* after the first.
C1_AdmittedDocumentsWithinBudget ==
    prompt_engineer.state = "built" =>
        LET n == Len(prompt_engineer.context_parts)
        IN  /\ n <= Len(NonEmptyDocuments)
            /\ TotalLen(SubSeq(NonEmptyDocuments, 1, n)) <= prompt_engineer.max_context_length
            /\ Len(prompt_engineer.combined_context) <=
                  prompt_engineer.max_context_length
                    + (IF n = 0 THEN 0 ELSE (n - 1) * Len(Delimiter))

\* two documents were admitted, a third did not fit, and the delimiter
\* carries the evidence block over the budget
C1_Witness ==
    /\ prompt_engineer.state = "built"
    /\ Len(prompt_engineer.context_parts) = 2
    /\ Len(NonEmptyDocuments) = 3
    /\ Len(prompt_engineer.combined_context) > prompt_engineer.max_context_length

\* C2: the admitted documents are the first n non-empty documents in rank
\* order, nothing is admitted after the first document that does not fit, and
\* every admitted document stands whole in the evidence block (only the
\* whitespace around it is trimmed).
C2_AdmittedPrefixWhole ==
    prompt_engineer.state = "built" =>
        LET parts == prompt_engineer.context_parts
            n == Len(parts)
        IN  /\ n <= Len(NonEmptyDocuments)
            /\ \A i \in 1..n : parts[i] = strip(NonEmptyDocuments[i])
            /\ n < Len(NonEmptyDocuments) =>
                  TotalLen(SubSeq(NonEmptyDocuments, 1, n + 1))
                      > prompt_engineer.max_context_length
            /\ prompt_engineer.combined_context = Join(Delimiter, parts)
            /\ \A i \in 1..n : Contains(prompt_engineer.prompt, parts[i])

\* the second document did not fit and was dropped together with a third one
\* that would have fitted on its own
C2_Witness ==
    /\ prompt_engineer.state = "built"
    /\ Len(prompt_engineer.context_parts) = 1
    /\ Len(NonEmptyDocuments) = 3
    /\ Len(NonEmptyDocuments[1]) + Len(NonEmptyDocuments[3])
          <= prompt_engineer.max_context_length

-----------------------------------------------------------------------------
(* Answer display: console pipeline step 7 (src/scripts/rag_pipeline.py)    *)
(* and the chat response of the UI app (src/ui/app.py)                      *)

HedgePhrases ==
    {"not enough information", "insufficient data", "cannot answer based on provided context"}

FixedSentinel ==
    "The available complaint data does not provide enough information to answer this question."

\* completion texts the remote model may return
ResponseCores ==
    {"", "Late fees are the top complaint", "not enough information",
     "There is Not Enough Information here", "INSUFFICIENT DATA",
     "insufficient data to answer", "insufficient  data",
     "I cannot answer based on provided context", FixedSentinel}

ResponseTexts ==
    {prefix \o core \o suffix :
        prefix \in {"", " ", "Sorry. "}, core \in ResponseCores, suffix \in {"", ".", " \n"}}

\* AnswerGenerator.generate_answer on a response that carries `text`:
\* the stripped text, or <<>> when it raises (no answer returned)
generate_answer(text) == IF strip(text) = "" THEN <<>> ELSE <<strip(text)>>

\* any(phrase in answer.lower() for phrase in [...])
HasHedgePhrase(answer) == \E phrase \in HedgePhrases : Contains(lower(answer), phrase)

DisplayInit ==
    /\ \E path \in {"console", "ui"}, text \in ResponseTexts :
           display = [state |-> "prompted", path |-> path, response |-> text,
                      answer |-> "", shown |-> ""]
    /\ preprocessor = Idle /\ chunker = Idle /\ processor = Idle
    /\ retriever = Idle /\ prompt_engineer = Idle /\ mapping = Idle
    /\ answer_generator = Idle /\ builder = Idle /\ loader = Idle
    /\ embedder = Idle /\ pipeline = Idle /\ runner = Idle

\* rag_pipeline.py step 7: generate, replace a hedging answer, print
ConsoleAnswer ==
    /\ display.state = "prompted"
    /\ display.path = "console"
    /\ LET returned == generate_answer(display.response)
       IN  IF returned = <<>>
           THEN \* "Answer generation failed", sys.exit(1)
                display' = [display EXCEPT !.state = "failed"]
           ELSE display' = [display EXCEPT
                    !.state = "shown",
                    !.answer = returned[1],
                    !.shown = IF HasHedgePhrase(returned[1])
                              THEN FixedSentinel
                              ELSE strip(returned[1])]
    /\ UNCHANGED <<preprocessor, chunker, processor, retriever, prompt_engineer, mapping,
                   answer_generator, builder, loader,
                   embedder, pipeline, runner>>

\* app.py: full_answer = generate_answer(full_prompt), streamed into the chat
UiAnswer ==
    /\ display.state = "prompted"
    /\ display.path = "ui"
    /\ LET returned == generate_answer(display.response)
       IN  IF returned = <<>>
           THEN display' = [display EXCEPT !.state = "failed"]
           ELSE display' = [display EXCEPT
                    !.state = "shown",
                    !.answer = returned[1],
                    !.shown = returned[1]]
    /\ UNCHANGED <<preprocessor, chunker, processor, retriever, prompt_engineer, mapping,
                   answer_generator, builder, loader,
                   embedder, pipeline, runner>>

DisplayNext == ConsoleAnswer \/ UiAnswer

SpecDisplay == DisplayInit /\ [][DisplayNext]_vars

\* C3: on every path that shows a generated answer (console pipeline and UI
\* app), an answer containing one of the hedge phrases, in any letter case,
\* is shown as exactly the fixed sentinel; any other answer is shown as
\* returned, trimmed.
C3_HedgedAnswerReplaced ==
    display.state = "shown" =>
        display.shown =
            IF \E phrase \in {"not enough information", "insufficient data",
                              "cannot answer based on provided context"} :
                    Contains(lower(display.answer), phrase)
            THEN "The available complaint data does not provide enough information to answer this question."
            ELSE strip(display.answer)

-----------------------------------------------------------------------------
(* QuestionRetriever over a loaded vector store (src/src/rag/retriever.py)  *)

MaxIndex == 3

MaxK == 3

\* L2-normalized embedding vectors (unit vectors of the integer plane)
UnitVectors == {<<1, 0>>, <<0, 1>>, <<-1, 0>>}

\* entries a build may have written: page content, metadata, stored vector
IndexEntries ==
    {[page_content |-> c.text, metadata |-> [Product |-> c.product], embedding |-> v] :
        c \in {[text |-> "late fee", product |-> "Credit card"],
               [text |-> "loan denied", product |-> "Personal loan"]},
        v \in UnitVectors}

\* self.embedding_model.encode(question) for the questions asked
QuestionEmbedding ==
    [question \in {"fees?", "loans?", "refund?"} |->
        CASE question = "fees?" -> <<1, 0>>
          [] question = "loans?" -> <<0, 1>>
          [] OTHER -> <<-1, 0>>]

AskedQuestions == {""} \cup DOMAIN QuestionEmbedding

None == <<>>

\* squared L2 distance, the metric of the collection
Distance(u, v) == (u[1] - v[1]) * (u[1] - v[1]) + (u[2] - v[2]) * (u[2] - v[2])

\* the nearest-neighbour search of the store: positions of the min(k, N)
\* entries nearest to `embedding`, nearest first, equal distances in insertion
\* order; a k below 1 is refused
similarity_search_by_vector(index, embedding, k) ==
    IF k < 1 THEN [ok |-> FALSE, hits |-> <<>>]
    ELSE LET N == Len(index)
             Before(p, q) ==
                \/ Distance(index[p].embedding, embedding) < Distance(index[q].embedding, embedding)
                \/ /\ Distance(index[p].embedding, embedding)
                        = Distance(index[q].embedding, embedding)
                   /\ p < q
             Rank(q) == Cardinality({p \in 1..N : Before(p, q)}) + 1
             n == IF k < N THEN k ELSE N
         IN  [ok |-> TRUE, hits |-> [i \in 1..n |-> CHOOSE q \in 1..N : Rank(q) = i]]

\* k = self.top_k, whatever the call passes
EffectiveK_IgnoreOverride(top_k, default_top_k) == default_top_k

\* k = top_k if top_k is not None else self.top_k
EffectiveK(top_k, default_top_k) == IF top_k # None THEN top_k[1] ELSE default_top_k

\* the result list built back to front
RetrieveResults_Reversed(index, query_result) ==
    [i \in 1..Len(query_result) |->
        [document |-> index[query_result[Len(query_result) + 1 - i]].page_content,
         metadata |-> index[query_result[Len(query_result) + 1 - i]].metadata]]

\* [{"document": doc.page_content, "metadata": doc.metadata} for doc in query_result]
RetrieveResults(index, query_result) ==
    [i \in 1..Len(query_result) |->
        [document |-> index[query_result[i]].page_content,
         metadata |-> index[query_result[i]].metadata]]

\* QuestionRetriever(vector_store, embedding_model_name, top_k) over a loaded store
RetrieverInit ==
    /\ \E index \in SeqsUpTo(IndexEntries, MaxIndex), top_k \in 1..MaxK :
           retriever = [state |-> "constructed", index |-> index, top_k |-> top_k,
                        question |-> "", call_top_k |-> None, query_embedding |-> <<>>,
                        query_result |-> <<>>, results |-> <<>>]
    /\ preprocessor = Idle /\ chunker = Idle /\ processor = Idle
    /\ prompt_engineer = Idle /\ mapping = Idle /\ display = Idle
    /\ answer_generator = Idle /\ builder = Idle /\ loader = Idle
    /\ embedder = Idle /\ pipeline = Idle /\ runner = Idle

\* retrieve(question, top_k)
Retrieve ==
    /\ retriever.state = "constructed"
    /\ \E question \in AskedQuestions, top_k \in {None} \cup {<<k>> : k \in (-1)..MaxK} :
        IF question = ""
        THEN \* embed_question raises; re-raised as RuntimeError
             retriever' = [retriever EXCEPT
                !.state = "error", !.question = question, !.call_top_k = top_k]
        ELSE LET query_embedding == QuestionEmbedding[question]
                 k == EffectiveK(top_k, retriever.top_k)
                 found == similarity_search_by_vector(retriever.index, query_embedding, k)
             IN  IF ~found.ok
                 THEN retriever' = [retriever EXCEPT
                        !.state = "error", !.question = question, !.call_top_k = top_k,
                        !.query_embedding = query_embedding]
                 ELSE retriever' = [retriever EXCEPT
                        !.state = "retrieved", !.question = question,
                        !.call_top_k = top_k, !.query_embedding = query_embedding,
                        !.query_result = found.hits,
                        !.results = RetrieveResults(retriever.index, found.hits)]
    /\ UNCHANGED <<preprocessor, chunker, processor, prompt_engineer, mapping, display,
                   answer_generator, builder, loader,
                   embedder, pipeline, runner>>

RetrieverNext == Retrieve

SpecRetrieve == RetrieverInit /\ [][RetrieverNext]_vars

\* cosine similarity of two normalized vectors: their dot product
C4_Similarity(u, v) == u[1] * v[1] + u[2] * v[2]

C5_RequestedK ==
    IF retriever.call_top_k = None THEN retriever.top_k ELSE retriever.call_top_k[1]

C16_SearchKPositive ==
    retriever.query_embedding # <<>> => C5_RequestedK >= 1

-----------------------------------------------------------------------------
(* TextChunker (src/src/chunking/text_chunker.py): chunk_dataframe over     *)
(* the RecursiveCharacterTextSplitter the constructor creates               *)

MaxTextLen == 6

MaxChunkLen == 3

\* default separators of the splitter, tried in this order
Separators == <<"\n\n", "\n", " ", "">>

StartsWith(s, prefix) == Len(prefix) <= Len(s) /\ SubSeq(s, 1, Len(prefix)) = prefix

\* the text cut before every occurrence of the separator (the separator stays
\* at the start of the piece that follows it)
RECURSIVE SplitKeepSeparator(_, _, _)
SplitKeepSeparator(text, separator, current) ==
    IF text = "" THEN <<current>>
    ELSE IF StartsWith(text, separator)
         THEN <<current>>
                \o SplitKeepSeparator(SubSeq(text, Len(separator) + 1, Len(text)),
                                      separator, separator)
         ELSE SplitKeepSeparator(SubSeq(text, 2, Len(text)), separator,
                                 current \o CharAt(text, 1))

\* the pieces of the text for one separator, empty pieces dropped
SplitWithSeparator(text, separator) ==
    IF separator = ""
    THEN [i \in 1..Len(text) |-> CharAt(text, i)]
    ELSE SelectSeq(SplitKeepSeparator(text, separator, ""), LAMBDA piece : piece # "")

\* index of the first separator that is "" or occurs in the text
SeparatorIndex(text, separators) ==
    LET usable == {i \in 1..Len(separators) :
                      separators[i] = "" \/ Contains(text, separators[i])}
    IN  IF usable = {} THEN Len(separators)
        ELSE CHOOSE i \in usable : \A j \in usable : i <= j

RECURSIVE Concat(_)
Concat(pieces) == IF pieces = <<>> THEN "" ELSE Head(pieces) \o Concat(Tail(pieces))

\* only the first piece of a chunk, stripped (the pieces merged after it are
\* left out)
JoinDocs_FirstPiece(current_doc) ==
    IF current_doc = <<>> \/ strip(Head(current_doc)) = "" THEN <<>>
    ELSE <<strip(Head(current_doc))>>

\* the joined pieces, stripped; nothing when only whitespace is left
JoinDocs(current_doc) ==
    IF strip(Concat(current_doc)) = "" THEN <<>> ELSE <<strip(Concat(current_doc))>>

\* drop pieces from the front while the kept part is longer than the overlap,
\* or too long for the next piece to fit
RECURSIVE PopFront(_, _, _, _)
PopFront(current_doc, next_len, chunk_size, chunk_overlap) ==
    LET total == Len(Concat(current_doc))
    IN  IF total > chunk_overlap \/ (total + next_len > chunk_size /\ total > 0)
        THEN PopFront(Tail(current_doc), next_len, chunk_size, chunk_overlap)
        ELSE current_doc

\* small pieces merged into chunks of at most chunk_size characters, each
\* chunk starting with the overlapping tail of the one before
RECURSIVE MergeSplits(_, _, _, _)
MergeSplits(splits, current_doc, chunk_size, chunk_overlap) ==
    IF splits = <<>> THEN JoinDocs(current_doc)
    ELSE LET d == Head(splits)
             total == Len(Concat(current_doc))
         IN  IF total + Len(d) > chunk_size /\ current_doc # <<>>
             THEN JoinDocs(current_doc)
                    \o MergeSplits(Tail(splits),
                           Append(PopFront(current_doc, Len(d), chunk_size, chunk_overlap), d),
                           chunk_size, chunk_overlap)
             ELSE MergeSplits(Tail(splits), Append(current_doc, d), chunk_size, chunk_overlap)

\* the recursive split: pieces shorter than chunk_size are merged, a longer
\* piece is split again with the remaining separators
RECURSIVE SplitText(_, _, _, _)
RECURSIVE SplitPieces(_, _, _, _, _)
SplitText(text, separators, chunk_size, chunk_overlap) ==
    LET i == SeparatorIndex(text, separators)
        new_separators == IF separators[i] = "" \/ ~Contains(text, separators[i])
                          THEN <<>>
                          ELSE SubSeq(separators, i + 1, Len(separators))
    IN  SplitPieces(SplitWithSeparator(text, separators[i]), <<>>, new_separators,
                    chunk_size, chunk_overlap)

SplitPieces(splits, good_splits, new_separators, chunk_size, chunk_overlap) ==
    LET merged == IF good_splits = <<>> THEN <<>>
                  ELSE MergeSplits(good_splits, <<>>, chunk_size, chunk_overlap)
    IN  IF splits = <<>> THEN merged
        ELSE IF Len(Head(splits)) < chunk_size
        THEN SplitPieces(Tail(splits), Append(good_splits, Head(splits)), new_separators,
                         chunk_size, chunk_overlap)
        ELSE merged
                \o (IF new_separators = <<>> THEN <<Head(splits)>>
                    ELSE SplitText(Head(splits), new_separators, chunk_size, chunk_overlap))
                \o SplitPieces(Tail(splits), <<>>, new_separators, chunk_size, chunk_overlap)

\* a splitter that hands back one empty chunk for an empty text
split_text_NeverEmpty(text, chunk_size, chunk_overlap) ==
    IF text = "" THEN <<"">> ELSE SplitText(text, Separators, chunk_size, chunk_overlap)

\* self.splitter.split_text(text)
split_text(text, chunk_size, chunk_overlap) ==
    SplitText(text, Separators, chunk_size, chunk_overlap)

\* cleaned narratives: what MinimalTextPreprocessor.clean_text can return
CleanedNarratives ==
    {clean_text(Str(raw)) : raw \in StringsUpTo({"a", "b", " "}, MaxTextLen)}

ShortNarratives == {"", "ab", "a b", "ab ab"}

MetadataColumns == {"Complaint ID", "Product"}

\* data frames handed to chunk_dataframe: one record with any cleaned
\* narrative, or two records with short ones
ChunkerFrames ==
    {<<>>}
    \cup {<<[cleaned_narrative |-> Str(t), ComplaintID |-> 1, Product |-> "Credit card"]>> :
            t \in CleanedNarratives}
    \cup {<<[cleaned_narrative |-> Str(t1), ComplaintID |-> 1, Product |-> "Credit card"],
            [cleaned_narrative |-> Str(t2), ComplaintID |-> 2, Product |-> "Personal loan"]>> :
            t1 \in ShortNarratives, t2 \in ShortNarratives}

\* TextChunker(chunk_size, chunk_overlap): the splitter accepts any overlap
\* up to the chunk size
ChunkerInit ==
    /\ \E chunk_size \in 1..MaxChunkLen, df \in ChunkerFrames :
        \E chunk_overlap \in 0..chunk_size,
           columns \in {{"cleaned_narrative"} \cup MetadataColumns,
                        {"cleaned_narrative", "Complaint ID"},
                        MetadataColumns} :
            /\ (Len(df) = 1 => columns = {"cleaned_narrative"} \cup MetadataColumns)
            /\ chunker = [state |-> "constructed", chunk_size |-> chunk_size,
                          chunk_overlap |-> chunk_overlap, df |-> df, columns |-> columns,
                          all_chunks |-> <<>>]
    /\ preprocessor = Idle /\ processor = Idle /\ retriever = Idle
    /\ prompt_engineer = Idle /\ mapping = Idle /\ display = Idle
    /\ answer_generator = Idle /\ builder = Idle /\ loader = Idle
    /\ embedder = Idle /\ pipeline = Idle /\ runner = Idle

\* the chunks of one row numbered from 1
RowChunks_OneBased(row, chunk_size, chunk_overlap) ==
    LET chunks == split_text(str(row.cleaned_narrative), chunk_size, chunk_overlap)
    IN  [i \in 1..Len(chunks) |->
            [text |-> chunks[i], ComplaintID |-> row.ComplaintID, Product |-> row.Product,
             chunk_index |-> i]]

\* the chunks of one row, with the row's metadata and the chunk index
RowChunks(row, chunk_size, chunk_overlap) ==
    LET chunks == split_text(str(row.cleaned_narrative), chunk_size, chunk_overlap)
    IN  [i \in 1..Len(chunks) |->
            [text |-> chunks[i], ComplaintID |-> row.ComplaintID, Product |-> row.Product,
             chunk_index |-> i - 1]]

RECURSIVE AllChunks(_, _, _)
AllChunks(df, chunk_size, chunk_overlap) ==
    IF df = <<>> THEN <<>>
    ELSE RowChunks(Head(df), chunk_size, chunk_overlap)
            \o AllChunks(Tail(df), chunk_size, chunk_overlap)

\* chunk_dataframe(df, "cleaned_narrative", ["Complaint ID", "Product"])
ChunkDataframe ==
    /\ chunker.state = "constructed"
    /\ IF ~({"cleaned_narrative"} \cup MetadataColumns \subseteq chunker.columns)
       THEN \* ValueError naming the column, re-raised as RuntimeError
            chunker' = [chunker EXCEPT !.state = "error"]
       ELSE chunker' = [chunker EXCEPT
                !.state = "chunked",
                !.all_chunks = AllChunks(chunker.df, chunker.chunk_size,
                                         chunker.chunk_overlap)]
    /\ UNCHANGED <<preprocessor, processor, retriever, prompt_engineer, mapping, display,
                   answer_generator, builder, loader,
                   embedder, pipeline, runner>>

ChunkerNext == ChunkDataframe

SpecChunk == ChunkerInit /\ [][ChunkerNext]_vars

\* the chunk texts emitted for one record, in chunk_index order
RecordChunkTexts(id) ==
    LET own == SelectSeq(chunker.all_chunks, LAMBDA c : c.ComplaintID = id)
    IN  [i \in 1..Len(own) |-> own[i].text]

Max(a, b) == IF a >= b THEN a ELSE b

\* the chunks laid over T from left to right, each one starting inside or
\* right after what is already covered, reach the end of T with no gap
RECURSIVE Reconstructs(_, _, _)
Reconstructs(T, chunks, covered) ==
    IF chunks = <<>> THEN covered = Len(T)
    ELSE LET c == Head(chunks)
         IN  \E p \in 1..(covered + 1) :
                /\ p + Len(c) - 1 <= Len(T)
                /\ SubSeq(T, p, p + Len(c) - 1) = c
                /\ Reconstructs(T, Tail(chunks), Max(covered, p + Len(c) - 1))

\* the chunks laid over T at non-decreasing positions leave only whitespace
\* uncovered
RECURSIVE CoversUpToWhitespace(_, _, _, _)
CoversUpToWhitespace(T, chunks, covered, min_start) ==
    IF chunks = <<>>
    THEN \A q \in (covered + 1)..Len(T) : IsSpace(CharAt(T, q))
    ELSE LET c == Head(chunks)
         IN  \E p \in min_start..(Len(T) - Len(c) + 1) :
                /\ SubSeq(T, p, p + Len(c) - 1) = c
                /\ \A q \in (covered + 1)..(p - 1) : IsSpace(CharAt(T, q))
                /\ CoversUpToWhitespace(T, Tail(chunks), Max(covered, p + Len(c) - 1), p)

\* records chunked with an overlap smaller than the chunk size
ChunkedRecords ==
    IF chunker.state = "chunked" /\ chunker.chunk_overlap < chunker.chunk_size
    THEN {chunker.df[i] : i \in 1..Len(chunker.df)}
    ELSE {}

\* C6 as stated: the chunks of a record, in chunk_index order with the
\* overlapping parts discarded, concatenate to exactly the record's text.
C6_ChunksReconstructText ==
    \A row \in ChunkedRecords :
        Reconstructs(str(row.cleaned_narrative), RecordChunkTexts(row.ComplaintID), 0)

\* C6 amended: the chunks of a record, in chunk_index order, are non-empty
\* pieces of the record's text of at most chunk_size characters, cut at
\* non-decreasing positions, and the only characters of the text that no
\* chunk holds are whitespace characters.
C6_ChunksCoverAllButWhitespace ==
    \A row \in ChunkedRecords :
        LET chunks == RecordChunkTexts(row.ComplaintID)
        IN  /\ \A i \in 1..Len(chunks) :
                    Len(chunks[i]) >= 1 /\ Len(chunks[i]) <= chunker.chunk_size
            /\ CoversUpToWhitespace(str(row.cleaned_narrative), chunks, 0, 1)

\* a record cut into overlapping chunks that lost a space of its text
C6_Witness ==
    /\ chunker.state = "chunked"
    /\ chunker.chunk_size = 3 /\ chunker.chunk_overlap = 1
    /\ Len(chunker.df) = 1
    /\ chunker.df[1].cleaned_narrative = Str("a abab")
    /\ RecordChunkTexts(1) = <<"a", "ab", "bab">>

CeilDiv(a, b) == (a + b - 1) \div b

\* C7 as stated: a record's text of at most chunk_size characters, the empty
\* one included, gives exactly one chunk, and a longer one gives
\* ceil((len(T) - O) / (S - O)) chunks.
C7_ChunkCountFormula ==
    \A row \in ChunkedRecords :
        LET T == str(row.cleaned_narrative)
            S == chunker.chunk_size
            O == chunker.chunk_overlap
        IN  Len(RecordChunkTexts(row.ComplaintID))
                = IF Len(T) <= S THEN 1 ELSE CeilDiv(Len(T) - O, S - O)

\* C7 amended: the empty text gives no chunk, a cleaned text of 1 to
\* chunk_size characters gives exactly one chunk (the text itself), and a
\* longer cleaned text gives at least two chunks and at most one per character.
C7_ChunkCount ==
    \A row \in ChunkedRecords :
        LET T == str(row.cleaned_narrative)
            chunks == RecordChunkTexts(row.ComplaintID)
        IN  /\ Len(T) = 0 => chunks = <<>>
            /\ (Len(T) >= 1 /\ Len(T) <= chunker.chunk_size) => chunks = <<T>>
            /\ Len(T) > chunker.chunk_size => Len(chunks) >= 2 /\ Len(chunks) <= Len(T)

\* the empty narrative chunked next to a narrative that fits one chunk
C7_Witness ==
    /\ chunker.state = "chunked"
    /\ chunker.chunk_size = 3 /\ chunker.chunk_overlap = 1
    /\ Len(chunker.df) = 2
    /\ chunker.df[1].cleaned_narrative = Str("")
    /\ chunker.df[2].cleaned_narrative = Str("a b")
    /\ RecordChunkTexts(1) = <<>>
    /\ RecordChunkTexts(2) = <<"a b">>

\* position in the data frame of the record a chunk names
C20_RecordOf(chunk) ==
    CHOOSE r \in 1..Len(chunker.df) : chunker.df[r].ComplaintID = chunk.ComplaintID

C20_SplitOf(r) ==
    split_text(str(chunker.df[r].cleaned_narrative), chunker.chunk_size,
               chunker.chunk_overlap)

\* C20: in the output of chunk_dataframe the chunks of a record are
\* consecutive, the records follow the input order, the chunk_index values of
\* a record are 0, 1, ..., n-1 with no gap and no repeat, and every chunk
\* carries the Complaint ID and Product of the record it was cut from.
C20_ChunksInRecordOrder ==
    chunker.state = "chunked" =>
        LET out == chunker.all_chunks
        IN  /\ \A p \in 1..Len(out) :
                  /\ \E r \in 1..Len(chunker.df) :
                        chunker.df[r].ComplaintID = out[p].ComplaintID
                  /\ out[p].Product = chunker.df[C20_RecordOf(out[p])].Product
                  /\ out[p].chunk_index >= 0
                  /\ out[p].chunk_index < Len(C20_SplitOf(C20_RecordOf(out[p])))
                  /\ out[p].text = C20_SplitOf(C20_RecordOf(out[p]))[out[p].chunk_index + 1]
            /\ out # <<>> => out[1].chunk_index = 0
            /\ \A p \in 1..(Len(out) - 1) :
                  \/ /\ out[p + 1].ComplaintID = out[p].ComplaintID
                     /\ out[p + 1].chunk_index = out[p].chunk_index + 1
                  \/ /\ C20_RecordOf(out[p + 1]) > C20_RecordOf(out[p])
                     /\ out[p + 1].chunk_index = 0
            /\ \A r \in 1..Len(chunker.df) :
                  Cardinality({p \in 1..Len(out) :
                                  out[p].ComplaintID = chunker.df[r].ComplaintID})
                      = Len(C20_SplitOf(r))

\* two records, each cut into several chunks
C20_Witness ==
    /\ chunker.state = "chunked"
    /\ Len(chunker.df) = 2
    /\ chunker.df[1].cleaned_narrative = Str("ab ab")
    /\ chunker.df[2].cleaned_narrative = Str("a b")
    /\ chunker.chunk_size = 2 /\ chunker.chunk_overlap = 1
    /\ Len(chunker.all_chunks) = 5
    /\ chunker.all_chunks[3] = [text |-> "ab", ComplaintID |-> 1,
                                Product |-> "Credit card", chunk_index |-> 2]
    /\ chunker.all_chunks[5] = [text |-> "b", ComplaintID |-> 2,
                                Product |-> "Personal loan", chunk_index |-> 1]

-----------------------------------------------------------------------------
(* AnswerGenerator (src/src/rag/answer_generator.py): generate_answer and   *)
(* evaluate_answer around one POST to the remote model                      *)

\* str.find / str.rfind of one character: 0-based position, -1 when absent
find(s, c) ==
    LET hits == {i \in 1..Len(s) : CharAt(s, i) = c}
    IN  IF hits = {} THEN -1 ELSE (CHOOSE i \in hits : \A j \in hits : i <= j) - 1

rfind(s, c) ==
    LET hits == {i \in 1..Len(s) : CharAt(s, i) = c}
    IN  IF hits = {} THEN -1 ELSE (CHOOSE i \in hits : \A j \in hits : i >= j) - 1

\* s[start:end] with Python's rules for negative and out-of-range bounds
Slice(s, start, end) ==
    LET clamp(n) == IF n < 0 THEN (IF n + Len(s) < 0 THEN 0 ELSE n + Len(s))
                    ELSE (IF n > Len(s) THEN Len(s) ELSE n)
    IN  IF clamp(start) >= clamp(end) THEN "" ELSE SubSeq(s, clamp(start) + 1, clamp(end))

Quote == "\""

\* position of the first non-whitespace character at or after i
RECURSIVE SkipWs(_, _)
SkipWs(s, i) == IF i <= Len(s) /\ IsSpace(CharAt(s, i)) THEN SkipWs(s, i + 1) ELSE i

\* a JSON string starting at i: <<position after it, its content>>, or <<0, "">>
ParseString(s, i) ==
    IF i > Len(s) \/ CharAt(s, i) # Quote THEN <<0, "">>
    ELSE LET closing == {j \in (i + 1)..Len(s) : CharAt(s, j) = Quote}
         IN  IF closing = {} THEN <<0, "">>
             ELSE LET j == CHOOSE k \in closing : \A l \in closing : k <= l
                  IN  <<j + 1, SubSeq(s, i + 1, j - 1)>>

JsonError == [ok |-> FALSE, value |-> <<>>]

\* the members "key": "value", ... up to the closing brace and the end of text
RECURSIVE ParseMembers(_, _, _)
ParseMembers(s, i, members) ==
    LET key == ParseString(s, i)
        colon == SkipWs(s, key[1])
        value == ParseString(s, SkipWs(s, colon + 1))
        next == SkipWs(s, value[1])
    IN  IF key[1] = 0 \/ colon > Len(s) \/ CharAt(s, colon) # ":" \/ value[1] = 0
             \/ next > Len(s)
        THEN JsonError
        ELSE IF CharAt(s, next) = ","
        THEN ParseMembers(s, SkipWs(s, next + 1), Append(members, <<key[2], value[2]>>))
        ELSE IF CharAt(s, next) = "}" /\ SkipWs(s, next + 1) > Len(s)
        THEN [ok |-> TRUE, value |-> Append(members, <<key[2], value[2]>>)]
        ELSE JsonError

\* json.loads for the texts evaluate_answer can hand to it: an object of
\* string members is parsed into its key/value pairs, anything else that is
\* not JSON raises
json_loads(s) ==
    LET i == SkipWs(s, 1)
    IN  IF i > Len(s) \/ CharAt(s, i) # "{" THEN JsonError
        ELSE IF SkipWs(s, i + 1) <= Len(s) /\ CharAt(s, SkipWs(s, i + 1)) = "}"
        THEN IF SkipWs(s, SkipWs(s, i + 1) + 1) > Len(s)
             THEN [ok |-> TRUE, value |-> <<>>] ELSE JsonError
        ELSE ParseMembers(s, SkipWs(s, i + 1), <<>>)

\* the fallback judgment of evaluate_answer
FallbackEvaluation ==
    << <<"Relevance", "X">>, <<"Accuracy", "X">>, <<"Completeness", "X">>,
       <<"Quality Score", "1">>,
       <<"Comments", "No valid evaluation returned. Check prompt format or API limits.">> >>

\* texts the remote model can put in its first candidate part
RemoteTexts ==
    {"", " ", "no json here", "ok }", "{ broken", "}{", "{}",
     "{\"Quality Score\": \"5\"}",
     "Sure: {\"Quality Score\": \"4\", \"Comments\": \"fine\"} \n",
     "{\"Quality Score\": \"3\"} and {more}",
     " the product is failing. "}

\* shapes of the JSON body: which of the keys candidates / content / parts /
\* text are there, and whether the candidates or parts list is empty
BodyShapes ==
    {"not_json", "no_candidates", "empty_candidates", "no_content", "no_parts",
     "empty_parts", "no_text", "null_text", "text"}

\* outcomes of requests.post: an exception of the transport, or a response
\* with a status code and a body
RemoteResponses ==
    {[transport |-> t, status |-> 0, shape |-> "not_json", text |-> ""] :
        t \in {"ConnectionError", "Timeout"}}
    \cup {[transport |-> "ok", status |-> c, shape |-> "not_json", text |-> ""] :
            c \in {400, 429, 500}}
    \cup {[transport |-> "ok", status |-> 200, shape |-> sh, text |-> ""] :
            sh \in BodyShapes \ {"text"}}
    \cup {[transport |-> "ok", status |-> 200, shape |-> "text", text |-> t] :
            t \in RemoteTexts}

Raised(error) == [raised |-> TRUE, error |-> error, text |-> ""]

\* requests.post, raise_for_status and the chain
\* response.json().get("candidates", [{}])[0].get("content", {})
\*     .get("parts", [{}])[0].get("text", "").strip()
ExtractText(response) ==
    IF response.transport # "ok" THEN Raised(response.transport)
    ELSE IF response.status >= 400 /\ response.status < 600 THEN Raised("HTTPError")
    ELSE IF response.shape = "not_json" THEN Raised("JSONDecodeError")
    ELSE IF response.shape \in {"empty_candidates", "empty_parts"} THEN Raised("IndexError")
    ELSE IF response.shape = "null_text" THEN Raised("AttributeError")
    ELSE IF response.shape \in {"no_candidates", "no_content", "no_parts", "no_text"}
    THEN [raised |-> FALSE, error |-> "", text |-> strip("")]
    ELSE [raised |-> FALSE, error |-> "", text |-> strip(response.text)]

\* generate_answer that hands back whatever text was extracted
generate_answer_result_Unchecked(prompt, response) ==
    IF prompt = "" THEN [outcome |-> "raised", error |-> "RuntimeError", value |-> ""]
    ELSE IF ExtractText(response).raised
    THEN [outcome |-> "raised", error |-> "RuntimeError", value |-> ""]
    ELSE [outcome |-> "returned", error |-> "", value |-> ExtractText(response).text]

\* generate_answer(prompt): every exception leaves as RuntimeError
generate_answer_result(prompt, response) ==
    IF prompt = "" THEN [outcome |-> "raised", error |-> "RuntimeError", value |-> ""]
    ELSE IF ExtractText(response).raised \/ ExtractText(response).text = ""
    THEN [outcome |-> "raised", error |-> "RuntimeError", value |-> ""]
    ELSE [outcome |-> "returned", error |-> "", value |-> ExtractText(response).text]

\* evaluate_answer that lets a failure of json.loads leave the method
evaluate_answer_result_ParseRaises(question, context, generated_answer, response) ==
    IF question = "" \/ context = "" \/ generated_answer = ""
    THEN [outcome |-> "returned", error |-> "", value |-> FallbackEvaluation]
    ELSE IF ExtractText(response).raised \/ ExtractText(response).text = ""
    THEN [outcome |-> "returned", error |-> "", value |-> FallbackEvaluation]
    ELSE LET raw_text == ExtractText(response).text
             json_text == Slice(raw_text, find(raw_text, "{"), rfind(raw_text, "}") + 1)
         IN  IF json_loads(json_text).ok
             THEN [outcome |-> "returned", error |-> "", value |-> json_loads(json_text).value]
             ELSE [outcome |-> "raised", error |-> "JSONDecodeError", value |-> <<>>]

\* evaluate_answer(question, context, generated_answer): every exception is
\* caught and answered with the fallback judgment
evaluate_answer_result(question, context, generated_answer, response) ==
    IF question = "" \/ context = "" \/ generated_answer = ""
    THEN [outcome |-> "returned", error |-> "", value |-> FallbackEvaluation]
    ELSE IF ExtractText(response).raised \/ ExtractText(response).text = ""
    THEN [outcome |-> "returned", error |-> "", value |-> FallbackEvaluation]
    ELSE LET raw_text == ExtractText(response).text
             json_text == Slice(raw_text, find(raw_text, "{"), rfind(raw_text, "}") + 1)
         IN  IF json_loads(json_text).ok
             THEN [outcome |-> "returned", error |-> "", value |-> json_loads(json_text).value]
             ELSE [outcome |-> "returned", error |-> "", value |-> FallbackEvaluation]

\* AnswerGenerator(api_key) with a non-empty key
AnswerGeneratorInit ==
    /\ answer_generator = [state |-> "ready", call |-> "none", args |-> <<>>,
                           response |-> [transport |-> "ok", status |-> 200,
                                         shape |-> "no_text", text |-> ""],
                           result |-> [outcome |-> "none", error |-> "", value |-> ""]]
    /\ preprocessor = Idle /\ chunker = Idle /\ processor = Idle /\ retriever = Idle
    /\ prompt_engineer = Idle /\ mapping = Idle /\ display = Idle
    /\ builder = Idle /\ loader = Idle
    /\ embedder = Idle /\ pipeline = Idle /\ runner = Idle

GenerateAnswer ==
    /\ answer_generator.state = "ready"
    /\ \E prompt \in {"", "p"}, response \in RemoteResponses :
        answer_generator' = [answer_generator EXCEPT
            !.call = "generate_answer", !.args = <<prompt>>, !.response = response,
            !.result = generate_answer_result(prompt, response)]
    /\ UNCHANGED <<preprocessor, chunker, processor, retriever, prompt_engineer, mapping,
                   display, builder, loader,
                   embedder, pipeline, runner>>

EvaluateAnswer ==
    /\ answer_generator.state = "ready"
    /\ \E question \in {"", "q"}, context \in {"", "c"}, generated_answer \in {"", "a"},
          response \in RemoteResponses :
        answer_generator' = [answer_generator EXCEPT
            !.call = "evaluate_answer",
            !.args = <<question, context, generated_answer>>,
            !.response = response,
            !.result = evaluate_answer_result(question, context, generated_answer, response)]
    /\ UNCHANGED <<preprocessor, chunker, processor, retriever, prompt_engineer, mapping,
                   display, builder, loader,
                   embedder, pipeline, runner>>

AnswerGeneratorNext == GenerateAnswer \/ EvaluateAnswer

SpecAnswer == AnswerGeneratorInit /\ [][AnswerGeneratorNext]_vars

\* the remote call or the parsing of its response failed
EvaluationFailed(response) ==
    \/ ExtractText(response).raised
    \/ ExtractText(response).text = ""
    \/ find(ExtractText(response).text, "{") = -1
    \/ ~json_loads(Slice(ExtractText(response).text,
                         find(ExtractText(response).text, "{"),
                         rfind(ExtractText(response).text, "}") + 1)).ok

\* C11: evaluate_answer never raises, and whenever the remote call fails or
\* its response is empty, holds no JSON object or holds malformed JSON, the
\* value returned is the fixed fallback judgment with Quality Score "1".
C11_EvaluationFallsBack ==
    answer_generator.call = "evaluate_answer" =>
        /\ answer_generator.result.outcome = "returned"
        /\ EvaluationFailed(answer_generator.response) =>
                /\ answer_generator.result.value = FallbackEvaluation
                /\ <<"Quality Score", "1">>
                        \in {answer_generator.result.value[i] :
                                i \in 1..Len(answer_generator.result.value)}

\* a response whose text holds no complete JSON object, answered by the fallback
C11_Witness ==
    /\ answer_generator.call = "evaluate_answer"
    /\ answer_generator.args = <<"q", "c", "a">>
    /\ answer_generator.response.status = 200
    /\ answer_generator.response.text = "{ broken"
    /\ answer_generator.result = [outcome |-> "returned", error |-> "",
                                  value |-> FallbackEvaluation]

-----------------------------------------------------------------------------
(* VectorStoreBuilder (src/src/chunking/vector_store_builder.py):           *)
(* build_chroma_store.  Lists are modelled by their lengths and an element  *)
(* by its position; the store by the number of entries written and the      *)
(* number covered by a persist().                                           *)

MaxBuilds == 2

max_batch_size == 5000

NoneArg == [given |-> FALSE, len |-> 0]

ListArg(n) == [given |-> TRUE, len |-> n]

DocumentCounts == {0, 1, 10000, 10001}

DocumentArgs == {NoneArg} \cup {ListArg(n) : n \in DocumentCounts}

MetadataArgs == {NoneArg} \cup {ListArg(n) : n \in DocumentCounts}

EmbeddingArgs == {NoneArg} \cup {ListArg(n) : n \in DocumentCounts \cup {5000}}

Min(a, b) == IF a <= b THEN a ELSE b

\* the checks at the head of build_chroma_store
InputAccepted(documents, metadatas) ==
    /\ documents.given /\ documents.len > 0
    /\ metadatas.given /\ metadatas.len = documents.len

\* a slice that leaves out a last batch shorter than max_batch_size
BatchLen_FullBatchesOnly(total, i) ==
    IF total - i >= max_batch_size THEN max_batch_size ELSE 0

\* len(lc_documents[i : i + max_batch_size])
BatchLen(total, i) == IF i >= total THEN 0 ELSE Min(max_batch_size, total - i)

\* the positions (counted from 1) of the slice [i : i + max_batch_size] of a
\* list of the given length, as the first and the last of them
SlicePositions(total, i) == [from |-> i + 1, to |-> i + BatchLen(total, i)]

\* the arguments of one add_documents call: the documents, each built from
\* the text and the metadata at one position, and the embeddings
BatchArguments(documents, embeddings, i) ==
    [documents |-> [text |-> SlicePositions(documents.len, i),
                    metadata |-> SlicePositions(documents.len, i)],
     embeddings |-> SlicePositions(embeddings.len, i)]

\* a loop body that commits the store after its batch
PersistedAfterBatch_Commit(persisted, entries) == entries

\* what is durably committed once the loop body has added a batch: what was
\* committed before (the loop body does not call persist)
PersistedAfterBatch(persisted, entries) == persisted

\* VectorStoreBuilder(persist_directory, collection_name) on a new directory
BuilderInit ==
    /\ builder = [state |-> "constructed", documents |-> NoneArg, metadatas |-> NoneArg,
                  embeddings |-> NoneArg, embedding_model |-> FALSE,
                  i |-> 0, entries |-> 0, entries_before |-> 0, persisted |-> 0,
                  persist_calls |-> 0, batches_added |-> 0, batches |-> <<>>,
                  same_inputs |-> FALSE,
                  result |-> "none", builds |-> 0]
    /\ preprocessor = Idle /\ chunker = Idle /\ processor = Idle /\ retriever = Idle
    /\ prompt_engineer = Idle /\ mapping = Idle /\ display = Idle
    /\ answer_generator = Idle /\ loader = Idle
    /\ embedder = Idle /\ pipeline = Idle /\ runner = Idle

BuilderUnchanged ==
    UNCHANGED <<preprocessor, chunker, processor, retriever, prompt_engineer, mapping,
                display, answer_generator, loader,
                embedder, pipeline, runner>>

\* build_chroma_store up to the creation of the store (lines 76-112), and the
\* whole of the live-embedding branch
BuildChromaStore ==
    /\ builder.state \in {"constructed", "done"}
    /\ builder.builds < MaxBuilds
    /\ \E documents \in DocumentArgs, metadatas \in MetadataArgs,
          embeddings \in EmbeddingArgs, embedding_model \in BOOLEAN,
          library_ok \in BOOLEAN :
        LET called == [builder EXCEPT
                !.documents = documents, !.metadatas = metadatas,
                !.embeddings = embeddings, !.embedding_model = embedding_model,
                !.i = 0, !.entries_before = builder.entries, !.persist_calls = 0,
                !.batches_added = 0, !.batches = <<>>,
                !.same_inputs = /\ builder.builds > 0
                                 /\ documents = builder.documents
                                 /\ metadatas = builder.metadatas
                                 /\ embeddings = builder.embeddings,
                !.builds = builder.builds + 1]
            failed == [called EXCEPT !.state = "done", !.result = "None"]
        IN  IF ~InputAccepted(documents, metadatas) THEN builder' = failed
            ELSE IF embeddings.given
            THEN \* Chroma(persist_directory, collection_name, embedding_function)
                 IF library_ok THEN builder' = [called EXCEPT !.state = "adding",
                                                              !.result = "none"]
                 ELSE builder' = failed
            ELSE IF ~embedding_model THEN builder' = failed
            ELSE \* Chroma.from_documents(...), then persist()
                 IF library_ok
                 THEN builder' = [called EXCEPT
                        !.state = "done", !.result = "store",
                        !.entries = builder.entries + documents.len,
                        !.persisted = builder.entries + documents.len,
                        !.persist_calls = 1]
                 ELSE \E written \in {0} \cup {n \in DocumentCounts : n < documents.len} :
                        builder' = [failed EXCEPT !.entries = builder.entries + written]
    /\ BuilderUnchanged

\* one pass of the loop: add_documents(batch_docs, embeddings=batch_embeddings),
\* which adds the batch or raises
AddBatch ==
    /\ builder.state = "adding"
    /\ builder.i < builder.documents.len
    /\ \E library_ok \in BOOLEAN :
        IF library_ok
        THEN builder' = [builder EXCEPT
                !.entries = builder.entries + BatchLen(builder.documents.len, builder.i),
                !.persisted = PersistedAfterBatch(builder.persisted,
                        builder.entries + BatchLen(builder.documents.len, builder.i)),
                !.batches_added = builder.batches_added + 1,
                !.batches = Append(@, BatchArguments(builder.documents,
                                                     builder.embeddings, builder.i)),
                !.i = builder.i + max_batch_size]
        ELSE builder' = [builder EXCEPT !.state = "done", !.result = "None"]
    /\ BuilderUnchanged

\* after the loop: vector_store.persist(), then the store is returned
PersistStore ==
    /\ builder.state = "adding"
    /\ builder.i >= builder.documents.len
    /\ \E library_ok \in BOOLEAN :
        IF library_ok
        THEN builder' = [builder EXCEPT
                !.state = "done", !.result = "store",
                !.persisted = builder.entries,
                !.persist_calls = builder.persist_calls + 1]
        ELSE builder' = [builder EXCEPT !.state = "done", !.result = "None"]
    /\ BuilderUnchanged

BuilderNext == BuildChromaStore \/ AddBatch \/ PersistStore

SpecBuilder == BuilderInit /\ [][BuilderNext]_vars

\* the three inputs of the current call are non-empty lists of equal length
C13_InputWellFormed ==
    /\ InputAccepted(builder.documents, builder.metadatas)
    /\ builder.embeddings.given
    /\ builder.embeddings.len = builder.documents.len

\* C13 as stated: a call given precomputed embeddings in which documents,
\* embeddings or metadatas is empty, or their lengths differ, is rejected and
\* writes no entry to the index.
C13_MalformedInputRejected ==
    (builder.builds > 0 /\ builder.embeddings.given /\ ~C13_InputWellFormed) =>
        /\ builder.entries = builder.entries_before
        /\ builder.state # "adding"
        /\ builder.result = "None"

\* C14 as stated: with precomputed embeddings, every batch that has been
\* written is durably committed before the next batch is written.
C14_CommitAfterEachBatch ==
    (builder.embeddings.given /\ builder.batches_added > 0) =>
        builder.persisted = builder.entries

\* C14 amended: with precomputed embeddings, persist is called once, after
\* the last batch has been written; while batches are being written, and when
\* the build fails, nothing of this build has been committed.
C14_PersistOnceAfterLastBatch ==
    (builder.builds > 0 /\ builder.embeddings.given) =>
        /\ builder.result # "store" =>
                builder.persist_calls = 0 /\ builder.persisted <= builder.entries_before
        /\ builder.result = "store" =>
                /\ builder.persist_calls = 1
                /\ builder.i >= builder.documents.len
                /\ builder.persisted = builder.entries

\* a build that failed on its third batch: two batches written, none committed
C14_Witness ==
    /\ builder.embeddings.given
    /\ builder.documents.len = 10001
    /\ builder.state = "done" /\ builder.result = "None"
    /\ builder.batches_added = 2
    /\ builder.entries = builder.entries_before + 2 * max_batch_size
    /\ builder.persisted = 0 /\ builder.persist_calls = 0

-----------------------------------------------------------------------------
(* ChromaLoader (src/src/rag/chroma_loader.py): construction and            *)
(* load_collection against what is on disk at persist_directory             *)

\* what the file system holds at persist_directory
Locations == {"missing", "regular_file", "empty_dir", "unrelated_files", "corrupt_store",
              "built_store"}

\* os.path.isdir(persist_directory)
isdir(location) == location \notin {"missing", "regular_file"}

\* the collection names and model names a caller passes; <<>> is a value
\* that is not a str
NameArgs == {<<>>, <<"">>, <<" ">>, <<"complaint_chunks">>, <<"other">>}

ModelNameArgs == {<<>>, <<"">>, <<" ">>, <<"all-MiniLM-L6-v2">>, <<"no-such-model">>}

\* isinstance(x, str) and x.strip() is not empty
NonBlankStr(arg) == arg # <<>> /\ strip(arg[1]) # ""

\* number of entries the index built at the location holds under the name
\* "complaint_chunks"
BuiltEntries == 3

\* the three checks of __init__
LoaderArgsValid(location, is_str, collection_name, embedding_model_name) ==
    /\ is_str /\ isdir(location)
    /\ NonBlankStr(collection_name)
    /\ NonBlankStr(embedding_model_name)

\* before construction: the location as some earlier run left it
LoaderInit ==
    /\ \E location \in Locations :
        loader = [state |-> "none", location |-> location, opened |-> location,
                  collection_name |-> <<>>, embedding_model_name |-> <<>>,
                  document_count |-> 0]
    /\ preprocessor = Idle /\ chunker = Idle /\ processor = Idle /\ retriever = Idle
    /\ prompt_engineer = Idle /\ mapping = Idle /\ display = Idle
    /\ answer_generator = Idle /\ builder = Idle
    /\ embedder = Idle /\ pipeline = Idle /\ runner = Idle

LoaderUnchanged ==
    UNCHANGED <<preprocessor, chunker, processor, retriever, prompt_engineer, mapping,
                display, answer_generator, builder,
                embedder, pipeline, runner>>

\* ChromaLoader(persist_directory, collection_name, embedding_model_name);
\* HuggingFaceEmbeddings(model_name) loads the model or raises
ConstructLoader ==
    /\ loader.state \in {"none", "error"}
    /\ \E is_str \in BOOLEAN, collection_name \in NameArgs,
          embedding_model_name \in ModelNameArgs, model_loads \in BOOLEAN :
        LET called == [loader EXCEPT !.collection_name = collection_name,
                                     !.embedding_model_name = embedding_model_name,
                                     !.opened = loader.location,
                                     !.document_count = 0]
        IN  IF /\ LoaderArgsValid(loader.location, is_str, collection_name,
                                  embedding_model_name)
               /\ model_loads
               /\ embedding_model_name # <<"no-such-model">>
            THEN loader' = [called EXCEPT !.state = "constructed"]
            ELSE loader' = [called EXCEPT !.state = "error"]
    /\ LoaderUnchanged

\* load_collection(): Chroma(persist_directory, collection_name,
\* embedding_function) opens the store at the directory, creating the store
\* files and the collection when they are not there, or raises; then
\* _collection.count()
LoadCollection ==
    /\ loader.state = "constructed"
    /\ \E library_ok \in BOOLEAN :
        IF loader.location = "corrupt_store" \/ ~library_ok
        THEN loader' = [loader EXCEPT !.state = "error"]
        ELSE loader' = [loader EXCEPT
                !.state = "loaded",
                !.location = IF loader.location = "built_store" THEN "built_store"
                             ELSE "new_store",
                !.document_count =
                    IF loader.location = "built_store"
                       /\ loader.collection_name = <<"complaint_chunks">>
                    THEN BuiltEntries ELSE 0]
    /\ LoaderUnchanged

LoaderNext == ConstructLoader \/ LoadCollection

SpecOpen == LoaderInit /\ [][LoaderNext]_vars

\* C15 as stated: opening an index succeeds only for a location at which an
\* index was built, and never with an absent or blank model name.
C15_OpenOnlyBuiltIndex ==
    loader.state = "loaded" =>
        /\ loader.opened = "built_store"
        /\ NonBlankStr(loader.embedding_model_name)

-----------------------------------------------------------------------------
(* Embedding at build time (EmbeddingGenerator.generate_embeddings,         *)
(* src/src/chunking/embedding_generator.py) and at query time               *)
(* (QuestionRetriever.embed_question, src/src/rag/retriever.py)             *)

MaxTexts == 2

\* sentence-transformers models a caller can name: the output dimension and
\* whether the model itself ends in a normalization step.  The two names the
\* scripts use denote the same model.
EmbeddingModels ==
    {[name |-> "all-MiniLM-L6-v2", weights |-> "MiniLM", dim |-> 2, normalizes |-> TRUE],
     [name |-> "sentence-transformers/all-MiniLM-L6-v2", weights |-> "MiniLM", dim |-> 2,
      normalizes |-> TRUE],
     [name |-> "model without normalization step", weights |-> "A", dim |-> 2,
      normalizes |-> FALSE],
     [name |-> "model of another dimension", weights |-> "B", dim |-> 3,
      normalizes |-> TRUE]}

EmbeddedTexts == {"late fee", "loan denied", "refund"}

\* the vector a model computes before any normalization: along one axis,
\* with a length that depends on the text
RawVector(model, text) ==
    LET axis == IF text = "late fee" THEN 1 ELSE IF text = "loan denied" THEN 2
                ELSE model.dim
        length == IF text = "refund" THEN -2 ELSE Len(text) \div 4
    IN  [i \in 1..model.dim |-> IF i = axis THEN length ELSE 0]

NormSquared(v) ==
    LET RECURSIVE Sum(_)
        Sum(i) == IF i = 0 THEN 0 ELSE v[i] * v[i] + Sum(i - 1)
    IN  Sum(Len(v))

\* v / ||v|| for a vector along one axis
Normalize(v) == [i \in 1..Len(v) |-> IF v[i] > 0 THEN 1 ELSE IF v[i] < 0 THEN -1 ELSE 0]

\* model.encode(text, normalize_embeddings=flag)
encode(model, text, normalize_embeddings) ==
    IF model.normalizes \/ normalize_embeddings
    THEN Normalize(RawVector(model, text))
    ELSE RawVector(model, text)

\* EmbeddingGenerator(model_name) of the indexing run and
\* QuestionRetriever(vector_store, embedding_model_name) of the query side
EmbedderInit ==
    /\ \E build_model \in EmbeddingModels, query_model \in EmbeddingModels :
        embedder = [state |-> "constructed", build_model |-> build_model,
                    query_model |-> query_model, texts |-> <<>>,
                    embeddings |-> [returned |-> "nothing", vectors |-> <<>>],
                    question |-> "", query_embedding |-> <<>>, query_raised |-> FALSE]
    /\ preprocessor = Idle /\ chunker = Idle /\ processor = Idle /\ retriever = Idle
    /\ prompt_engineer = Idle /\ mapping = Idle /\ display = Idle
    /\ answer_generator = Idle /\ builder = Idle /\ loader = Idle
    /\ pipeline = Idle /\ runner = Idle

EmbedderUnchanged ==
    UNCHANGED <<preprocessor, chunker, processor, retriever, prompt_engineer, mapping,
                display, answer_generator, builder, loader, pipeline, runner>>

\* generate_embeddings(texts): None for an empty list or when encode raises
GenerateEmbeddings ==
    /\ \E texts \in SeqsUpTo(EmbeddedTexts, MaxTexts), encode_ok \in BOOLEAN :
        embedder' = [embedder EXCEPT
            !.state = "embedded",
            !.texts = texts,
            !.embeddings =
                IF texts = <<>> \/ ~encode_ok
                THEN [returned |-> "None", vectors |-> <<>>]
                ELSE [returned |-> "array",
                      vectors |-> [i \in 1..Len(texts) |->
                                      encode(embedder.build_model, texts[i], TRUE)]]]
    /\ EmbedderUnchanged

\* embed_question(question): self.embedding_model.encode(question).tolist()
EmbedQuestion ==
    /\ \E question \in {""} \cup EmbeddedTexts :
        IF question = ""
        THEN embedder' = [embedder EXCEPT !.question = question,
                                          !.query_embedding = <<>>,
                                          !.query_raised = TRUE]
        ELSE embedder' = [embedder EXCEPT
                !.question = question,
                !.query_embedding = encode(embedder.query_model, question, FALSE),
                !.query_raised = FALSE]
    /\ EmbedderUnchanged

EmbedderNext == GenerateEmbeddings \/ EmbedQuestion

SpecEmbed == EmbedderInit /\ [][EmbedderNext]_vars

\* C21 as stated: the vectors generate_embeddings returned for the index and
\* the query vector embed_question returned are all L2-normalized, of one
\* dimension, and come from the same embedding model.
C21_VectorsCompatible ==
    (embedder.embeddings.returned = "array" /\ embedder.query_embedding # <<>>) =>
        /\ \A i \in 1..Len(embedder.embeddings.vectors) :
              /\ NormSquared(embedder.embeddings.vectors[i]) = 1
              /\ Len(embedder.embeddings.vectors[i]) = Len(embedder.query_embedding)
        /\ NormSquared(embedder.query_embedding) = 1
        /\ embedder.build_model.weights = embedder.query_model.weights

-----------------------------------------------------------------------------
(* Console pipeline, steps 5 to 7 for one question                          *)
(* (src/scripts/rag_pipeline.py)                                            *)

MaxRetrieved == 2

\* PromptEngineer(max_context_length=3000)
pipeline_max_context_length == 3000

RetrievedDocuments == {"late fee charged twice", "loan denied", ""}

NoChunksMessage == "No complaint chunks found. Cannot generate answer."

RetrievalFailedMessage == "Retrieval failed"

PromptFailedMessage == "Prompt assembly failed"

AnswerFailedMessage == "Answer generation failed"

\* what the answering service may send back for the pipeline's prompt
PipelineResponses ==
    RemoteResponses
    \cup {[transport |-> "ok", status |-> 200, shape |-> "text", text |-> t] :
            t \in {"Late fees are the top complaint.", "There is not enough information.",
                   "Insufficient data to answer", FixedSentinel,
                   "**\"" \o FixedSentinel \o "\"**"}}

\* step 5 that goes on to the prompt whatever was retrieved
AfterRetrieval_AlwaysAssemble(retrieved_chunks) == "step6"

\* step 5 after retrieve returned: stop on an empty result, else go on
AfterRetrieval(retrieved_chunks) == IF retrieved_chunks = <<>> THEN "exited" ELSE "step6"

\* a question has been typed (step 4 leaves on an empty one)
PipelineInit ==
    /\ \E user_question \in {"why?", "fees?"} :
        pipeline = [state |-> "step5", user_question |-> user_question,
                    invoked |-> <<>>, retrieve_raised |-> FALSE,
                    retrieved_chunks |-> <<>>, prompt |-> "",
                    generate_raised |-> FALSE, answer |-> "",
                    printed |-> <<>>, exit_code |-> -1]
    /\ preprocessor = Idle /\ chunker = Idle /\ processor = Idle /\ retriever = Idle
    /\ prompt_engineer = Idle /\ mapping = Idle /\ display = Idle
    /\ answer_generator = Idle /\ builder = Idle /\ loader = Idle
    /\ embedder = Idle /\ runner = Idle

PipelineUnchanged ==
    UNCHANGED <<preprocessor, chunker, processor, retriever, prompt_engineer, mapping,
                display, answer_generator, builder, loader, embedder, runner>>

\* step 5: retriever.retrieve(user_question)
Step5Retrieve ==
    /\ pipeline.state = "step5"
    /\ \E raised \in BOOLEAN, docs \in SeqsUpTo(RetrievedDocuments, MaxRetrieved) :
        LET retrieved_chunks == [i \in 1..Len(docs) |-> [document |-> docs[i]]]
            called == [pipeline EXCEPT !.invoked = Append(@, "retrieve")]
        IN  IF raised
            THEN pipeline' = [called EXCEPT
                    !.state = "exited", !.retrieve_raised = TRUE,
                    !.printed = Append(@, RetrievalFailedMessage), !.exit_code = 1]
            ELSE IF AfterRetrieval(retrieved_chunks) = "exited"
            THEN pipeline' = [called EXCEPT
                    !.state = "exited", !.retrieved_chunks = retrieved_chunks,
                    !.printed = Append(@, NoChunksMessage), !.exit_code = 0]
            ELSE pipeline' = [called EXCEPT
                    !.state = "step6", !.retrieved_chunks = retrieved_chunks]
    /\ PipelineUnchanged

\* step 6: prompt_engineer.build_prompt(user_question, retrieved_chunks)
Step6AssemblePrompt ==
    /\ pipeline.state = "step6"
    /\ LET called == [pipeline EXCEPT !.invoked = Append(@, "build_prompt")]
       IN  IF strip(pipeline.user_question) = "" \/ pipeline.retrieved_chunks = <<>>
           THEN pipeline' = [called EXCEPT
                    !.state = "exited",
                    !.printed = Append(@, PromptFailedMessage), !.exit_code = 1]
           ELSE pipeline' = [called EXCEPT
                    !.state = "step7",
                    !.prompt = PromptTemplate(
                        Join(Delimiter,
                             AssembleContext(pipeline.retrieved_chunks, <<>>, 0,
                                             pipeline_max_context_length)),
                        pipeline.user_question)]
    /\ PipelineUnchanged

\* step 7: answer_generator.generate_answer(prompt), the hedge-phrase check,
\* and the final answer printed
Step7GenerateAnswer ==
    /\ pipeline.state = "step7"
    /\ \E response \in PipelineResponses :
        LET called == [pipeline EXCEPT !.invoked = Append(@, "generate_answer")]
            result == generate_answer_result(pipeline.prompt, response)
        IN  IF result.outcome = "raised"
            THEN pipeline' = [called EXCEPT
                    !.state = "exited", !.generate_raised = TRUE,
                    !.printed = Append(@, AnswerFailedMessage), !.exit_code = 1]
            ELSE pipeline' = [called EXCEPT
                    !.state = "answered",
                    !.answer = result.value,
                    !.printed = Append(@,
                        IF HasHedgePhrase(result.value) \/ Len(pipeline.retrieved_chunks) = 0
                        THEN FixedSentinel ELSE strip(result.value))]
    /\ PipelineUnchanged

PipelineNext == Step5Retrieve \/ Step6AssemblePrompt \/ Step7GenerateAnswer

SpecPipeline == PipelineInit /\ [][PipelineNext]_vars

C22_Invoked(stage) == \E i \in 1..Len(pipeline.invoked) : pipeline.invoked[i] = stage

\* C22: a query of the console pipeline ends in exactly one outcome message;
\* an empty retrieval ends in the "no complaint chunks found" message with
\* neither build_prompt nor generate_answer invoked; a failure of
\* generate_answer ends in the answer-generation failure message; a hedging
\* answer ends in the sentinel; the messages differ from one another; and
\* generate_answer is invoked only after retrieve returned a non-empty list
\* and build_prompt returned the prompt.
C22_OneDistinctOutcome ==
    /\ pipeline.state \in {"exited", "answered"} => Len(pipeline.printed) = 1
    /\ pipeline.state \notin {"exited", "answered"} => pipeline.printed = <<>>
    /\ (pipeline.state = "exited" /\ ~pipeline.retrieve_raised
            /\ pipeline.retrieved_chunks = <<>>) =>
            /\ pipeline.printed = <<NoChunksMessage>>
            /\ pipeline.invoked = <<"retrieve">>
    /\ pipeline.retrieve_raised =>
            pipeline.printed = <<RetrievalFailedMessage>> /\ pipeline.invoked = <<"retrieve">>
    /\ pipeline.generate_raised => pipeline.printed = <<AnswerFailedMessage>>
    /\ (pipeline.state = "answered" /\ HasHedgePhrase(pipeline.answer)) =>
            pipeline.printed = <<FixedSentinel>>
    /\ Cardinality({NoChunksMessage, RetrievalFailedMessage, PromptFailedMessage,
                    AnswerFailedMessage, FixedSentinel}) = 5
    /\ C22_Invoked("build_prompt") =>
            /\ pipeline.retrieved_chunks # <<>>
            /\ SubSeq(pipeline.invoked, 1, 2) = <<"retrieve", "build_prompt">>
    /\ C22_Invoked("generate_answer") =>
            /\ pipeline.invoked = <<"retrieve", "build_prompt", "generate_answer">>
            /\ pipeline.retrieved_chunks # <<>>
            /\ pipeline.prompt # ""

\* an empty retrieval has ended the query with its own message
C22_Witness ==
    /\ pipeline.state = "exited"
    /\ ~pipeline.retrieve_raised
    /\ pipeline.retrieved_chunks = <<>>
    /\ pipeline.invoked = <<"retrieve">>
    /\ pipeline.printed = <<NoChunksMessage>>
    /\ pipeline.exit_code = 0

-----------------------------------------------------------------------------
(* Error propagation of the stages                                          *)

\* C23 as stated: a call of generate_embeddings with an empty list of texts
\* raises to its caller instead of returning a normal-looking value such as
\* None.
C23_ValidationErrorRaised ==
    (embedder.state = "embedded" /\ embedder.texts = <<>>) =>
        embedder.embeddings.returned \notin {"None", "array"}

-----------------------------------------------------------------------------
(* Normal form of the stored narrative                                      *)

\* C24 as stated: the narrative of every retained record has no run of two
\* or more whitespace characters, no leading or trailing whitespace, is
\* lower-case, and is left unchanged by clean_text.
C24_StoredNarrativeNormalized ==
    \A row \in RetainedRows :
        ~isnull(row.Narrative) =>
            LET text == row.Narrative[1]
            IN  /\ ~\E i \in 1..(Len(text) - 1) :
                        IsSpace(CharAt(text, i)) /\ IsSpace(CharAt(text, i + 1))
                /\ strip(text) = text
                /\ lower(text) = text
                /\ processor_clean_text(row.Narrative) = text

-----------------------------------------------------------------------------
(* Repeated builds and the batches of one build                             *)

\* C25 as stated: when build_chroma_store has run again with the inputs of
\* the build before it, on the same directory and collection, and has
\* completed, the index holds exactly one entry per input document.
C25_RetryIdempotent ==
    (builder.builds >= 2 /\ builder.same_inputs /\ builder.result = "store") =>
        builder.entries = builder.documents.len

\* number of positions in a slice
C30_Size(slice) == slice.to - slice.from + 1

\* C30: with precomputed embeddings, the batches handed to add_documents are
\* consecutive slices of the input in input order, none longer than 5000:
\* the first starts at position 1, each next one starts where the one before
\* ended, and once the build has completed the last one ends at the last
\* document, so every document is handed over exactly once.  Every document
\* of a batch carries the text and the metadata of one position, and the
\* batch's embeddings start at the batch's own first position and, when the
\* embeddings list is as long as the documents list, are the embeddings of
\* exactly the batch's positions.  This holds for lengths that are exact
\* multiples of 5000 as well.
C30_BatchesPartitionInput ==
    (builder.builds > 0 /\ builder.embeddings.given) =>
        /\ \A k \in 1..Len(builder.batches) :
            LET batch == builder.batches[k]
            IN  /\ batch.documents.text.from =
                      (IF k = 1 THEN 1 ELSE builder.batches[k - 1].documents.text.to + 1)
                /\ C30_Size(batch.documents.text) >= 1
                /\ C30_Size(batch.documents.text) <= 5000
                /\ batch.documents.text.to <= builder.documents.len
                /\ batch.documents.metadata = batch.documents.text
                /\ batch.embeddings.from = batch.documents.text.from
                /\ C30_Size(batch.embeddings) <= 5000
                /\ builder.embeddings.len = builder.documents.len =>
                        batch.embeddings = batch.documents.text
        /\ builder.result = "store" =>
                /\ Len(builder.batches) >= 1
                /\ builder.batches[Len(builder.batches)].documents.text.to
                        = builder.documents.len
                /\ builder.entries = builder.entries_before + builder.documents.len

\* a build of exactly two full batches has completed
C30_Witness ==
    /\ builder.embeddings = ListArg(10000)
    /\ builder.documents = ListArg(10000)
    /\ builder.result = "store"
    /\ Len(builder.batches) = 2
    /\ builder.batches[1].documents.text = [from |-> 1, to |-> 5000]
    /\ builder.batches[2].documents.text = [from |-> 5001, to |-> 10000]
    /\ builder.batches[2].embeddings = [from |-> 5001, to |-> 10000]

-----------------------------------------------------------------------------
(* AnswerGenerator: a remote call in time.  requests.post blocks the caller *)
(* until the service has answered or the timeout it was given has run out.  *)

\* the timeout argument of requests.post(url, headers=..., json=...): none
request_timeout == [given |-> FALSE, seconds |-> 0]

NoResponse == [transport |-> "pending", status |-> 0, shape |-> "not_json", text |-> ""]

RemoteCallInit ==
    /\ answer_generator = [state |-> "ready", call |-> "none", args |-> <<>>,
                           response |-> NoResponse]
    /\ preprocessor = Idle /\ chunker = Idle /\ processor = Idle /\ retriever = Idle
    /\ prompt_engineer = Idle /\ mapping = Idle /\ display = Idle
    /\ builder = Idle /\ loader = Idle
    /\ embedder = Idle /\ pipeline = Idle /\ runner = Idle

RemoteCallUnchanged ==
    UNCHANGED <<preprocessor, chunker, processor, retriever, prompt_engineer, mapping,
                display, builder, loader, embedder, pipeline, runner>>

\* generate_answer up to requests.post: the request is sent
PostGenerateAnswer ==
    /\ answer_generator.state = "ready"
    /\ \E prompt \in {"", "p"} :
        answer_generator' = [answer_generator EXCEPT
            !.state = "posted", !.call = "generate_answer", !.args = <<prompt>>,
            !.response = NoResponse]
    /\ RemoteCallUnchanged

\* evaluate_answer up to requests.post: the request is sent
PostEvaluateAnswer ==
    /\ answer_generator.state = "ready"
    /\ \E question \in {"", "q"}, generated_answer \in {"", "a"} :
        answer_generator' = [answer_generator EXCEPT
            !.state = "posted", !.call = "evaluate_answer",
            !.args = <<question, "c", generated_answer>>,
            !.response = NoResponse]
    /\ RemoteCallUnchanged

\* the service, or the transport below requests, produces an outcome
ServiceResponds ==
    /\ answer_generator.state = "posted"
    /\ answer_generator.response = NoResponse
    /\ \E response \in RemoteResponses :
        answer_generator' = [answer_generator EXCEPT !.response = response]
    /\ RemoteCallUnchanged

\* requests.post returns or raises: the outcome is the service's, or, when
\* a timeout was given and nothing has arrived, a Timeout of the transport
PostReturns ==
    /\ answer_generator.state = "posted"
    /\ answer_generator.response # NoResponse \/ request_timeout.given
    /\ answer_generator' = [answer_generator EXCEPT
            !.state = "ready",
            !.response =
                IF answer_generator.response # NoResponse THEN answer_generator.response
                ELSE [transport |-> "Timeout", status |-> 0, shape |-> "not_json",
                      text |-> ""]]
    /\ RemoteCallUnchanged

\* what the call that has ended handed to its caller: the rest of the method
\* applied to the outcome of requests.post
RemoteCallResult ==
    IF answer_generator.call = "none" \/ answer_generator.state # "ready"
    THEN [outcome |-> "none", error |-> "", value |-> ""]
    ELSE IF answer_generator.call = "generate_answer"
    THEN generate_answer_result(answer_generator.args[1], answer_generator.response)
    ELSE evaluate_answer_result(answer_generator.args[1], answer_generator.args[2],
                                answer_generator.args[3], answer_generator.response)

RemoteCallNext ==
    PostGenerateAnswer \/ PostEvaluateAnswer \/ ServiceResponds \/ PostReturns

\* the caller's thread keeps running; the service is under no obligation
SpecRemoteCall ==
    RemoteCallInit /\ [][RemoteCallNext]_vars /\ WF_vars(PostReturns)

\* C26 as stated: every call of generate_answer and of evaluate_answer
\* eventually completes, by returning or by raising, whether or not the
\* service ever responds.
C26_CallsComplete ==
    (answer_generator.state = "posted") ~>
        (/\ answer_generator.state = "ready"
         /\ RemoteCallResult.outcome \in {"returned", "raised"})

-----------------------------------------------------------------------------
(* The instructed sentinel and the hedge-phrase check                       *)

\* C27 as stated: whenever the answer that generate_answer returned to the
\* console pipeline is the sentence the prompt instructs for insufficient
\* evidence, the hedge-phrase check matches it and the answer printed is
\* exactly the fixed sentinel.
C27_InstructedSentinelRecognized ==
    (pipeline.state = "answered" /\ pipeline.answer = SentinelInstruction) =>
        /\ HasHedgePhrase(pipeline.answer)
        /\ pipeline.printed = <<FixedSentinel>>

-----------------------------------------------------------------------------
(* Embedding and indexing run (src/scripts/embedding_runner.py), from the   *)
(* loaded data frame to the index                                           *)

MaxRunnerRows == 2

\* TextChunker(chunk_size=500, chunk_overlap=50)
runner_chunk_size == 500

runner_chunk_overlap == 50

\* rows of a raw file that process_chunks may be given
RunnerRawRows ==
    RawRows
    \cup {[Product |-> Str("Checking or savings account"),
           SubProduct |-> Str("Savings account"), Narrative |-> Str("Fee")]}

\* pd.read_csv of a cell that to_csv wrote: an empty field is read as missing
read_csv_cell(cell) == IF isnull(cell) \/ cell = Str("") THEN NaN ELSE cell

\* the rows of filtered_complaints.csv: what process_chunks keeps of a raw
\* row and writes, read back
FilteredComplaints ==
    {[Product |-> kept[1].Product[1],
      SubProduct |-> read_csv_cell(kept[1].SubProduct),
      MappedProduct |-> kept[1].MappedProduct,
      Narrative |-> read_csv_cell(kept[1].Narrative)] :
        kept \in {CleanNarratives(FilterNarratives(FilterProducts(
                      WithMappedProduct({"Product", "Sub-product",
                                         "Consumer complaint narrative"}, <<raw>>)))) :
                    raw \in {r \in RunnerRawRows : ~isnull(r.Product)}} \ {<<>>}}

\* step 1 has loaded (and sampled) a data frame with at least one row
RunnerInit ==
    /\ \E rows \in SeqsUpTo(FilteredComplaints, MaxRunnerRows) :
        /\ rows # <<>>
        /\ runner = [state |-> "loaded",
                     df |-> [i \in 1..Len(rows) |->
                                [ComplaintID |-> i, Product |-> rows[i].Product,
                                 MappedProduct |-> rows[i].MappedProduct,
                                 Narrative |-> rows[i].Narrative,
                                 cleaned_narrative |-> NaN]],
                     chunked_data |-> <<>>,
                     embeddings |-> [returned |-> "nothing", len |-> 0],
                     metadatas |-> <<>>, index |-> <<>>, vector_store |-> "none"]
    /\ preprocessor = Idle /\ chunker = Idle /\ processor = Idle /\ retriever = Idle
    /\ prompt_engineer = Idle /\ mapping = Idle /\ display = Idle
    /\ answer_generator = Idle /\ builder = Idle /\ loader = Idle
    /\ embedder = Idle /\ pipeline = Idle

RunnerUnchanged ==
    UNCHANGED <<preprocessor, chunker, processor, retriever, prompt_engineer, mapping,
                display, answer_generator, builder, loader, embedder, pipeline>>

\* step 2: apply_to_dataframe(df, "Consumer complaint narrative",
\* "cleaned_narrative")
RunnerCleanText ==
    /\ runner.state = "loaded"
    /\ runner' = [runner EXCEPT
            !.state = "cleaned",
            !.df = [i \in 1..Len(runner.df) |->
                       [runner.df[i] EXCEPT
                           !.cleaned_narrative = Str(clean_text(runner.df[i].Narrative))]]]
    /\ RunnerUnchanged

\* metadata_columns=["Complaint ID", "Product"]: the value of the Product
\* column of the row
MetadataProduct(row) == row.Product

\* step 3: chunk_dataframe(df, "cleaned_narrative", ["Complaint ID", "Product"])
RunnerChunk ==
    /\ runner.state = "cleaned"
    /\ runner' = [runner EXCEPT
            !.state = "chunked",
            !.chunked_data =
                AllChunks([i \in 1..Len(runner.df) |->
                              [cleaned_narrative |-> runner.df[i].cleaned_narrative,
                               ComplaintID |-> runner.df[i].ComplaintID,
                               Product |-> MetadataProduct(runner.df[i])]],
                          runner_chunk_size, runner_chunk_overlap)]
    /\ RunnerUnchanged

\* step 4: generate_embeddings(chunk_texts); None ends the run
RunnerEmbed ==
    /\ runner.state = "chunked"
    /\ \E encode_ok \in BOOLEAN :
        IF runner.chunked_data = <<>> \/ ~encode_ok
        THEN runner' = [runner EXCEPT !.state = "exited",
                                      !.embeddings = [returned |-> "None", len |-> 0]]
        ELSE runner' = [runner EXCEPT
                !.state = "embedded",
                !.embeddings = [returned |-> "array", len |-> Len(runner.chunked_data)]]
    /\ RunnerUnchanged

\* step 5: the metadatas, then build_chroma_store(documents=chunk_texts,
\* embeddings=embeddings, metadatas=metadatas)
RunnerBuild ==
    /\ runner.state = "embedded"
    /\ \E library \in {"ok", "add_failed", "persist_failed"} :
        LET metadatas == [i \in 1..Len(runner.chunked_data) |->
                             [ComplaintID |-> runner.chunked_data[i].ComplaintID,
                              Product |-> runner.chunked_data[i].Product,
                              ChunkIndex |-> runner.chunked_data[i].chunk_index]]
            written == [i \in 1..Len(runner.chunked_data) |->
                           [page_content |-> runner.chunked_data[i].text,
                            metadata |-> metadatas[i]]]
        IN  runner' = [runner EXCEPT
                !.state = "built",
                !.metadatas = metadatas,
                !.index = IF library = "add_failed" THEN <<>> ELSE written,
                !.vector_store = IF library = "ok" THEN "store" ELSE "None"]
    /\ RunnerUnchanged

RunnerNext == RunnerCleanText \/ RunnerChunk \/ RunnerEmbed \/ RunnerBuild

SpecRunner == RunnerInit /\ [][RunnerNext]_vars

\* C28 as stated: the category in the metadata of every entry the run wrote
\* to the index is the mapped category of the entry's source record, one of
\* the five target categories.
C28_IndexCategoryMapped ==
    \A i \in 1..Len(runner.index) :
        LET entry == runner.index[i]
            source == runner.df[entry.metadata.ComplaintID]
        IN  /\ entry.metadata.Product = source.MappedProduct
            /\ entry.metadata.Product \in AllowedSet

-----------------------------------------------------------------------------
(* Conservation of the counters of process_chunks                           *)

RECURSIVE C29_SumFound(_, _)
C29_SumFound(stats, products) ==
    IF products = {} THEN 0
    ELSE LET product == CHOOSE p \in products : TRUE
         IN  stats.products_found[product] + C29_SumFound(stats, products \ {product})

\* C29 as stated: after every completed batch the rows read are the rows kept
\* plus the rows dropped for their category plus the rows dropped for their
\* narrative, and the per-category counts add up to the rows kept; after a
\* successful completion rows_dropped_total is rows read minus rows kept.
C29_CountersConserved ==
    /\ (processor.state \in {"reading", "done"} /\ processor.chunks_read > 0) =>
            /\ processor.stats.rows_loaded
                    = processor.stats.rows_kept
                        + processor.stats.rows_dropped_wrong_product
                        + processor.stats.rows_dropped_no_narrative
            /\ C29_SumFound(processor.stats, DOMAIN processor.stats.products_found)
                    = processor.stats.rows_kept
    /\ (processor.state = "done" /\ processor.chunks_read > 0) =>
            processor.stats.rows_dropped_total
                = processor.stats.rows_loaded - processor.stats.rows_kept

====
